---- MODULE Spec2Model ----
(***************************************************************************)
(* rbac-engine: the policy evaluator (evaluateCondition, matches,          *)
(* isStatementActive, evaluate), the builders (StatementBuilder,           *)
(* PolicyBuilder), the AccessControl facade (createPolicy, hasAccess) and  *)
(* the DynamoDBRepository (src/unnamed/part_002).                          *)
(*                                                                         *)
(* The current evaluator module (the one that exports isStatementActive,   *)
(* which test/policy/evaluator.spec.ts imports) is the text at             *)
(* src/db/factory.ts lines 74-200.  src/policy/evaluator.ts holds an       *)
(* earlier copy of it whose evaluate has no isStatementActive check;       *)
(* evaluateCondition, escapeRegExp and matches are the same in both.       *)
(*                                                                         *)
(* Strings that are matched (patterns, actions, resources) are sequences   *)
(* of one-character strings.  Date strings are opaque until parsed and are *)
(* kept as TLA+ strings.  JavaScript values of a condition or a context    *)
(* are records [t |-> type, v |-> text].                                   *)
(***************************************************************************)
EXTENDS Integers, Sequences, FiniteSets, TLC

VARIABLES
    policies,   \* evaluate: the Policy[] argument
    action,     \* evaluate: the action argument
    resource,   \* evaluate: the resource argument
    context,    \* evaluate / evaluateCondition: the context argument
    statement,  \* isStatementActive: the statement argument
    pattern,    \* matches: the pattern argument (string | string[])
    value,      \* matches: the value argument
    condition,  \* evaluateCondition: the condition argument
    now,        \* the clock read by `new Date()`
    pc,         \* "call" before the function has run, "done" after
    result,     \* the boolean the function returned
    sb,         \* a StatementBuilder instance (its private fields)
    pb,         \* a PolicyBuilder instance (its private fields)
    out,        \* what the last builder / facade / repository call returned or threw
    hist,       \* the calls made so far on the builders (arguments, outcomes)
    call,       \* the AccessControl or repository calls in progress (position, locals)
    store       \* the storage collaborator (what it holds, what it was handed)

evaluatorVars ==
    <<policies, action, resource, context, statement, pattern, value,
      condition, now, pc, result>>
builderVars == <<sb, pb, out, hist>>
accessVars == <<call, store>>
vars == <<evaluatorVars, builderVars, accessVars>>

----------------------------------------------------------------------------
(* Bounds *)

MaxLen == 3          \* longest pattern / value string of the matcher harness
MaxPatterns == 2     \* longest pattern array of the matcher harness
MaxStatements == 2   \* most statements, over all policies, of one evaluate call
MaxTime == 3         \* last clock tick

----------------------------------------------------------------------------
(* Generic helpers *)

SeqsUpTo(S, n) == UNION {[1..k -> S] : k \in 0..n}

RECURSIVE Concat(_)
Concat(ss) == IF ss = <<>> THEN <<>> ELSE Head(ss) \o Concat(Tail(ss))

----------------------------------------------------------------------------
(* String.prototype.split / Array.prototype.join / String.prototype.includes *)

includes(s, c) == \E i \in 1..Len(s) : s[i] = c

RECURSIVE split(_, _)
split(s, sep) ==
    IF ~includes(s, sep) THEN <<s>>
    ELSE LET i == CHOOSE k \in 1..Len(s) :
                     s[k] = sep /\ \A j \in 1..(k - 1) : s[j] # sep
         IN  <<SubSeq(s, 1, i - 1)>> \o split(SubSeq(s, i + 1, Len(s)), sep)

RECURSIVE join(_, _)
join(parts, sep) ==
    IF parts = <<>> THEN <<>>
    ELSE IF Len(parts) = 1 THEN parts[1]
    ELSE parts[1] \o sep \o join(Tail(parts), sep)

----------------------------------------------------------------------------
(* escapeRegExp: every character of the class [-\/\\^$*+?.()|[\]{}] gets a *)
(* backslash in front.                                                     *)

RegExpSpecials ==
    {"-", "/", "\\", "^", "$", "*", "+", "?", ".", "(", ")", "|", "[", "]", "{", "}"}

escapeRegExp_NoDot(string) ==
    Concat([i \in 1..Len(string) |->
              IF string[i] \in (RegExpSpecials \ {"."})
              THEN <<"\\", string[i]>> ELSE <<string[i]>>])

escapeRegExp(string) ==
    Concat([i \in 1..Len(string) |->
              IF string[i] \in RegExpSpecials
              THEN <<"\\", string[i]>> ELSE <<string[i]>>])

----------------------------------------------------------------------------
(* new RegExp(regexString).test(value), for the regular expressions the     *)
(* matcher can build: ^ and $ assertions, escaped characters, plain        *)
(* characters, the dot, and the * quantifier after any of them.  No flags  *)
(* are given, so the dot matches any character except a line terminator    *)
(* and $ matches at the end of the input only.                             *)

LineTerminators == {"\n", "\r"}

RECURSIVE RegExpParse(_)
RegExpParse(re) ==
    IF re = <<>> THEN <<>>
    ELSE LET escaped == re[1] = "\\" /\ Len(re) >= 2
             n       == IF escaped THEN 2 ELSE 1
             kind    == IF escaped THEN "char"
                        ELSE IF re[1] = "." THEN "dot"
                        ELSE IF re[1] = "^" THEN "bol"
                        ELSE IF re[1] = "$" THEN "eol"
                        ELSE "char"
             star    == Len(re) > n /\ re[n + 1] = "*"
             used    == IF star THEN n + 1 ELSE n
         IN  <<[kind |-> kind, ch |-> re[n], star |-> star]>>
                 \o RegExpParse(SubSeq(re, used + 1, Len(re)))

AtomMatches(item, c) ==
    IF item.kind = "dot" THEN c \notin LineTerminators
    ELSE item.kind = "char" /\ item.ch = c

RECURSIVE MatchHere(_, _, _)
MatchHere(items, s, pos) ==
    IF items = <<>> THEN TRUE
    ELSE LET it == Head(items) IN
         IF it.kind = "bol" THEN pos = 1 /\ MatchHere(Tail(items), s, pos)
         ELSE IF it.kind = "eol" THEN pos = Len(s) + 1 /\ MatchHere(Tail(items), s, pos)
         ELSE IF it.star
              THEN \E k \in 0..(Len(s) - pos + 1) :
                      /\ \A j \in pos..(pos + k - 1) : AtomMatches(it, s[j])
                      /\ MatchHere(Tail(items), s, pos + k)
              ELSE /\ pos <= Len(s)
                   /\ AtomMatches(it, s[pos])
                   /\ MatchHere(Tail(items), s, pos + 1)

RegExpTest(re, s) ==
    LET items == RegExpParse(re)
    IN  \E start \in 1..(Len(s) + 1) : MatchHere(items, s, start)

----------------------------------------------------------------------------
(* matches(pattern, value).  The argument `pattern` is string | string[]:   *)
(* Str(s) is a string, Arr(a) an array of strings.                         *)

Str(s) == [isArray |-> FALSE, val |-> s]
Arr(a) == [isArray |-> TRUE, val |-> a]

regexString(p) ==
    <<"^">> \o join([i \in 1..Len(split(p, "*")) |-> escapeRegExp(split(p, "*")[i])],
                    <<".", "*">>) \o <<"$">>

matchesString(p, v) ==
    IF includes(p, "*") THEN RegExpTest(regexString(p), v)
    ELSE p = v

RECURSIVE matches(_, _)
RECURSIVE some(_, _)

(* pattern.some(p => matches(p, value)) *)
some_Every(arr, v) == \A i \in 1..Len(arr) : matches(Str(arr[i]), v)

some(arr, v) ==
    IF arr = <<>> THEN FALSE
    ELSE IF matches(Str(Head(arr)), v) THEN TRUE
    ELSE some(Tail(arr), v)

matches(p, v) ==
    IF p.isArray THEN some(p.val, v) ELSE matchesString(p.val, v)

----------------------------------------------------------------------------
(* JavaScript values.  A value is its type and its text, so that the string *)
(* "1" and the number 1 differ under === and agree under ==.               *)

JsString(s) == [t |-> "string", v |-> s]
JsNumber(s) == [t |-> "number", v |-> s]
JsUndefined == [t |-> "undefined", v |-> ""]

StrictEquals(a, b) == a = b

LooseEquals(a, b) ==
    \/ a = b
    \/ {a.t, b.t} = {"string", "number"} /\ a.v = b.v

(* context[key]: the value of a missing property is undefined *)
Get(obj, key) == IF key \in DOMAIN obj THEN obj[key] ELSE JsUndefined

----------------------------------------------------------------------------
(* evaluateCondition(condition, context):                                   *)
(*   Object.entries(condition).every(([key, value]) => context[key] === value) *)

evaluateCondition_Loose(cond, ctx) ==
    \A key \in DOMAIN cond : LooseEquals(Get(ctx, key), cond[key])

evaluateCondition(cond, ctx) ==
    \A key \in DOMAIN cond : StrictEquals(Get(ctx, key), cond[key])

----------------------------------------------------------------------------
(* Dates.  new Date(string).getTime() is NaN for a string that is no date. *)
(* The clock counts ticks: tick 1 is 2025-04-01T00:00:00Z, tick 2 is       *)
(* 2025-05-01T12:00:00Z, tick 3 is 2025-06-01T00:00:00Z.  A date-only ISO  *)
(* string is midnight UTC, so two different strings can name one instant.  *)

NaN == -1
Undefined == "<undefined>"

DateStrings ==
    {"", "invalid-date", "2025-04-01T00:00:00Z", "2025-04-01",
     "2025-05-01T12:00:00Z", "2025-06-01T00:00:00Z"}

getTime(dateString) ==
    CASE dateString = "2025-04-01T00:00:00Z" -> 1
      [] dateString = "2025-04-01"           -> 1
      [] dateString = "2025-05-01T12:00:00Z" -> 2
      [] dateString = "2025-06-01T00:00:00Z" -> 3
      [] OTHER                               -> NaN

isNaN(t) == t = NaN

(* `if (statement.StartDate)`: undefined and the empty string are falsy *)
Truthy(s) == s # Undefined /\ s # ""

----------------------------------------------------------------------------
(* isStatementActive(statement), with `now` the value of new Date()         *)

isStatementActive_ExclusiveStart(st, t) ==
    IF Truthy(st.StartDate)
       /\ (isNaN(getTime(st.StartDate)) \/ t <= getTime(st.StartDate))
    THEN FALSE
    ELSE IF Truthy(st.EndDate)
            /\ (isNaN(getTime(st.EndDate)) \/ t > getTime(st.EndDate))
    THEN FALSE
    ELSE TRUE

(* the StartDate comparison the wrong way round *)
isStatementActive_UntilStart(st, t) ==
    IF Truthy(st.StartDate)
       /\ (isNaN(getTime(st.StartDate)) \/ t > getTime(st.StartDate))
    THEN FALSE
    ELSE IF Truthy(st.EndDate)
            /\ (isNaN(getTime(st.EndDate)) \/ t > getTime(st.EndDate))
    THEN FALSE
    ELSE TRUE

isStatementActive(st, t) ==
    IF Truthy(st.StartDate)
       /\ (isNaN(getTime(st.StartDate)) \/ t < getTime(st.StartDate))
    THEN FALSE
    ELSE IF Truthy(st.EndDate)
            /\ (isNaN(getTime(st.EndDate)) \/ t > getTime(st.EndDate))
    THEN FALSE
    ELSE TRUE

----------------------------------------------------------------------------
(* evaluate(policies, action, resource, context).  A request is the record *)
(* [action, resource, context, now]; now is what new Date() returns while  *)
(* the call runs.  applyStatement is the body of the inner loop: it either *)
(* makes evaluate return a value, or goes on with isAllowed.               *)

Continue(isAllowed) == [returned |-> FALSE, isAllowed |-> isAllowed]
Return(v) == [returned |-> TRUE, isAllowed |-> v]

(* a matching Deny clears isAllowed and the scan goes on *)
applyStatement_DenyContinues(st, req, isAllowed) ==
    IF ~isStatementActive(st, req.now) THEN Continue(isAllowed)
    ELSE IF st.HasCondition /\ ~evaluateCondition(st.Condition, req.context)
    THEN Continue(isAllowed)
    ELSE IF matches(Arr(st.Action), req.action) /\ matches(Arr(st.Resource), req.resource)
    THEN IF st.Effect = "Allow" THEN Continue(TRUE)
         ELSE IF st.Effect = "Deny" THEN Continue(FALSE)
         ELSE Continue(isAllowed)
    ELSE Continue(isAllowed)

(* the action OR the resource has to match *)
applyStatement_ActionOrResource(st, req, isAllowed) ==
    IF ~isStatementActive(st, req.now) THEN Continue(isAllowed)
    ELSE IF st.HasCondition /\ ~evaluateCondition(st.Condition, req.context)
    THEN Continue(isAllowed)
    ELSE IF matches(Arr(st.Action), req.action) \/ matches(Arr(st.Resource), req.resource)
    THEN IF st.Effect = "Allow" THEN Continue(TRUE)
         ELSE IF st.Effect = "Deny" THEN Return(FALSE)
         ELSE Continue(isAllowed)
    ELSE Continue(isAllowed)

(* a matching Allow returns true at once *)
applyStatement_AllowReturns(st, req, isAllowed) ==
    IF ~isStatementActive(st, req.now) THEN Continue(isAllowed)
    ELSE IF st.HasCondition /\ ~evaluateCondition(st.Condition, req.context)
    THEN Continue(isAllowed)
    ELSE IF matches(Arr(st.Action), req.action) /\ matches(Arr(st.Resource), req.resource)
    THEN IF st.Effect = "Allow" THEN Return(TRUE)
         ELSE IF st.Effect = "Deny" THEN Return(FALSE)
         ELSE Continue(isAllowed)
    ELSE Continue(isAllowed)

(* no isStatementActive check *)
applyStatement_NoActiveCheck(st, req, isAllowed) ==
    IF st.HasCondition /\ ~evaluateCondition(st.Condition, req.context)
    THEN Continue(isAllowed)
    ELSE IF matches(Arr(st.Action), req.action) /\ matches(Arr(st.Resource), req.resource)
    THEN IF st.Effect = "Allow" THEN Continue(TRUE)
         ELSE IF st.Effect = "Deny" THEN Return(FALSE)
         ELSE Continue(isAllowed)
    ELSE Continue(isAllowed)

(* a Condition that is not satisfied makes evaluate return false *)
applyStatement_ConditionDenies(st, req, isAllowed) ==
    IF ~isStatementActive(st, req.now) THEN Continue(isAllowed)
    ELSE IF st.HasCondition /\ ~evaluateCondition(st.Condition, req.context)
    THEN Return(FALSE)
    ELSE IF matches(Arr(st.Action), req.action) /\ matches(Arr(st.Resource), req.resource)
    THEN IF st.Effect = "Allow" THEN Continue(TRUE)
         ELSE IF st.Effect = "Deny" THEN Return(FALSE)
         ELSE Continue(isAllowed)
    ELSE Continue(isAllowed)

applyStatement(st, req, isAllowed) ==
    IF ~isStatementActive(st, req.now) THEN Continue(isAllowed)
    ELSE IF st.HasCondition /\ ~evaluateCondition(st.Condition, req.context)
    THEN Continue(isAllowed)
    ELSE IF matches(Arr(st.Action), req.action) /\ matches(Arr(st.Resource), req.resource)
    THEN IF st.Effect = "Allow" THEN Continue(TRUE)
         ELSE IF st.Effect = "Deny" THEN Return(FALSE)
         ELSE Continue(isAllowed)
    ELSE Continue(isAllowed)

RECURSIVE forStatements(_, _, _)
forStatements(statements, req, isAllowed) ==
    IF statements = <<>> THEN Continue(isAllowed)
    ELSE LET r == applyStatement(Head(statements), req, isAllowed)
         IN  IF r.returned THEN r ELSE forStatements(Tail(statements), req, r.isAllowed)

(* isAllowed starts again from false at each policy *)
RECURSIVE forPolicies_ResetsPerPolicy(_, _, _)
forPolicies_ResetsPerPolicy(ps, req, isAllowed) ==
    IF ps = <<>> THEN isAllowed
    ELSE LET r == forStatements(Head(ps).document.Statement, req, FALSE)
         IN  IF r.returned THEN r.isAllowed
             ELSE forPolicies_ResetsPerPolicy(Tail(ps), req, r.isAllowed)

RECURSIVE forPolicies(_, _, _)
forPolicies(ps, req, isAllowed) ==
    IF ps = <<>> THEN isAllowed
    ELSE LET r == forStatements(Head(ps).document.Statement, req, isAllowed)
         IN  IF r.returned THEN r.isAllowed ELSE forPolicies(Tail(ps), req, r.isAllowed)

evaluate(ps, act, res, ctx, t) ==
    forPolicies(ps, [action |-> act, resource |-> res, context |-> ctx, now |-> t], FALSE)

----------------------------------------------------------------------------
(* Values of the arguments a harness does not use *)

Statement(effect, actions, resources, hasCondition, cond, startDate, endDate) ==
    [Effect |-> effect, Action |-> actions, Resource |-> resources,
     HasCondition |-> hasCondition, Condition |-> cond,
     StartDate |-> startDate, EndDate |-> endDate]

EmptyObject == <<>>
IdleStatement ==
    Statement("Allow", <<>>, <<>>, FALSE, EmptyObject, Undefined, Undefined)

Objects(keys, vals) == UNION {[K -> vals] : K \in SUBSET keys}

----------------------------------------------------------------------------
(* builders/types.ts: a call either returns a value or throws.  A thrown   *)
(* BuilderValidationError carries its message and its errors array.        *)

Returned(v) == [threw |-> FALSE, message |-> "", errors |-> <<>>, value |-> v]
BuilderValidationError(message, errors, noValue) ==
    [threw |-> TRUE, message |-> message, errors |-> errors, value |-> noValue]

----------------------------------------------------------------------------
(* StatementBuilder (src/unnamed/part_004).  `conditions?` is kept as a    *)
(* flag and an object; `effect?`, `startDate?`, `endDate?` are Undefined   *)
(* until set.                                                              *)

NewStatementBuilder ==
    [effect |-> Undefined, actions |-> <<>>, resources |-> <<>>,
     hasConditions |-> FALSE, conditions |-> EmptyObject,
     startDate |-> Undefined, endDate |-> Undefined]

StatementBuilder_allow(b, actions) ==
    [b EXCEPT !.effect = "Allow", !.actions = actions]
StatementBuilder_deny(b, actions) ==
    [b EXCEPT !.effect = "Deny", !.actions = actions]
StatementBuilder_on(b, resources) == [b EXCEPT !.resources = resources]
StatementBuilder_when(b, conditions) ==
    [b EXCEPT !.hasConditions = TRUE, !.conditions = conditions]
StatementBuilder_activeFrom(b, startDate) == [b EXCEPT !.startDate = startDate]
StatementBuilder_activeUntil(b, endDate) == [b EXCEPT !.endDate = endDate]

\* `array.some(x => !x || typeof x !== 'string')`: the entries are strings,
\* and `!x` holds of the empty string only
someEmpty(array) == \E i \in 1..Len(array) : array[i] = <<>>

\* `a >= b` on numbers: false when either side is NaN
GreaterOrEqual(a, b) == ~isNaN(a) /\ ~isNaN(b) /\ a >= b

pushIf(cond, message) == IF cond THEN <<message>> ELSE <<>>

\* the errors array of validate(); isValid is `errors.length === 0`
StatementBuilder_validate(b) ==
       pushIf(~Truthy(b.effect),
              "Effect must be set using either allow() or deny()")
    \o pushIf(Len(b.actions) = 0, "At least one action must be specified")
    \o pushIf(Len(b.resources) = 0,
              "At least one resource must be specified using on()")
    \o pushIf(someEmpty(b.actions), "All actions must be non-empty strings")
    \o pushIf(someEmpty(b.resources), "All resources must be non-empty strings")
    \o pushIf(Truthy(b.startDate) /\ isNaN(getTime(b.startDate)),
              "StartDate must be a valid ISO format date string")
    \o pushIf(Truthy(b.endDate) /\ isNaN(getTime(b.endDate)),
              "EndDate must be a valid ISO format date string")
    \o pushIf(Truthy(b.startDate) /\ Truthy(b.endDate)
                  /\ GreaterOrEqual(getTime(b.startDate), getTime(b.endDate)),
              "StartDate must be before EndDate")

StatementBuilder_build(b) ==
    LET errors == StatementBuilder_validate(b) IN
    IF errors # <<>>
    THEN BuilderValidationError("Invalid statement configuration", errors,
                                IdleStatement)
    ELSE Returned(Statement(b.effect, b.actions, b.resources,
                            b.hasConditions, b.conditions,
                            IF Truthy(b.startDate) THEN b.startDate ELSE Undefined,
                            IF Truthy(b.endDate) THEN b.endDate ELSE Undefined))

----------------------------------------------------------------------------
(* PolicyBuilder (src/unnamed/part_003).  `simpleStatementBuilder?` is a   *)
(* sequence of length 0 (undefined) or 1.  A method's outcome carries in   *)
(* `value` the fields of the builder after the call, also when it threw.   *)

NewPolicyBuilder(id) ==
    [policyId |-> id, documentVersion |-> "2023-11-15",
     policyStatements |-> <<>>, hasSimpleStatement |-> FALSE,
     simpleStatementBuilder |-> <<>>]

PolicyBuilder_version(p, version) == [p EXCEPT !.documentVersion = version]

ensureSimpleStatementMode_NoCheck(p) ==
    IF p.simpleStatementBuilder = <<>>
    THEN Returned([p EXCEPT !.simpleStatementBuilder = <<NewStatementBuilder>>,
                            !.hasSimpleStatement = TRUE])
    ELSE Returned(p)
ensureSimpleStatementMode(p) ==
    IF Len(p.policyStatements) > 0
    THEN BuilderValidationError(
             "Cannot use simple statement methods (allow/deny/on/when) after using statement() method. Use either simple mode or complex mode, not both.",
             <<>>, p)
    ELSE IF p.simpleStatementBuilder = <<>>
    THEN Returned([p EXCEPT !.simpleStatementBuilder = <<NewStatementBuilder>>,
                            !.hasSimpleStatement = TRUE])
    ELSE Returned(p)

\* `this.simpleStatementBuilder!` after ensureSimpleStatementMode() returned e
simpleStatementBuilder(e) ==
    IF e.threw THEN NewStatementBuilder ELSE e.value.simpleStatementBuilder[1]

\* the rest of a simple-mode method: the error of ensureSimpleStatementMode(),
\* or `this` with simpleStatementBuilder changed by the delegated call to b
simpleMode(e, b) ==
    IF e.threw THEN e
    ELSE Returned([e.value EXCEPT !.simpleStatementBuilder = <<b>>])

PolicyBuilder_allow(p, actions) ==
    LET e == ensureSimpleStatementMode(p) IN
    simpleMode(e, StatementBuilder_allow(simpleStatementBuilder(e), actions))
PolicyBuilder_deny_Allows(p, actions) ==
    LET e == ensureSimpleStatementMode(p) IN
    simpleMode(e, StatementBuilder_allow(simpleStatementBuilder(e), actions))
PolicyBuilder_deny(p, actions) ==
    LET e == ensureSimpleStatementMode(p) IN
    simpleMode(e, StatementBuilder_deny(simpleStatementBuilder(e), actions))
PolicyBuilder_on(p, resources) ==
    LET e == ensureSimpleStatementMode(p) IN
    simpleMode(e, StatementBuilder_on(simpleStatementBuilder(e), resources))
PolicyBuilder_when(p, conditions) ==
    LET e == ensureSimpleStatementMode(p) IN
    simpleMode(e, StatementBuilder_when(simpleStatementBuilder(e), conditions))
PolicyBuilder_activeFrom(p, startDate) ==
    LET e == ensureSimpleStatementMode(p) IN
    simpleMode(e, StatementBuilder_activeFrom(simpleStatementBuilder(e), startDate))
PolicyBuilder_activeUntil(p, endDate) ==
    LET e == ensureSimpleStatementMode(p) IN
    simpleMode(e, StatementBuilder_activeUntil(simpleStatementBuilder(e), endDate))

\* the argument of statement(): a StatementBuilder or a PolicyStatement
BuilderArg(b) == [isBuilder |-> TRUE, builder |-> b, statement |-> IdleStatement]
StatementArg(st) ==
    [isBuilder |-> FALSE, builder |-> NewStatementBuilder, statement |-> st]

PolicyBuilder_statement_PushesFirst(p, statementBuilder) ==
    LET st == IF statementBuilder.isBuilder
              THEN StatementBuilder_build(statementBuilder.builder)
              ELSE Returned(statementBuilder.statement)
    IN  IF st.threw THEN [st EXCEPT !.value = p]
        ELSE LET q == [p EXCEPT !.policyStatements = Append(@, st.value)] IN
             IF p.hasSimpleStatement
             THEN BuilderValidationError(
                      "Cannot mix simple statement methods (allow/deny/on/when) with statement() method. Use either simple mode or complex mode, not both.",
                      <<>>, q)
             ELSE Returned(q)
PolicyBuilder_statement(p, statementBuilder) ==
    IF p.hasSimpleStatement
    THEN BuilderValidationError(
             "Cannot mix simple statement methods (allow/deny/on/when) with statement() method. Use either simple mode or complex mode, not both.",
             <<>>, p)
    ELSE LET st == IF statementBuilder.isBuilder
                   THEN StatementBuilder_build(statementBuilder.builder)
                   ELSE Returned(statementBuilder.statement)
         IN  IF st.threw
             THEN [st EXCEPT !.value = p]
             ELSE Returned([p EXCEPT !.policyStatements = Append(@, st.value)])

\* forEach: the statements before the one that throws stay pushed
RECURSIVE PolicyBuilder_addStatements(_, _)
PolicyBuilder_addStatements(p, statements) ==
    IF statements = <<>> THEN Returned(p)
    ELSE LET r == PolicyBuilder_statement(p, Head(statements)) IN
         IF r.threw THEN r
         ELSE PolicyBuilder_addStatements(r.value, Tail(statements))

getAllStatements(p) ==
    p.policyStatements \o
    (IF p.hasSimpleStatement /\ p.simpleStatementBuilder # <<>>
     THEN LET r == StatementBuilder_build(p.simpleStatementBuilder[1]) IN
          IF r.threw THEN <<>> ELSE <<r.value>>
     ELSE <<>>)

PolicyBuilder_validate(p) ==
       pushIf(p.policyId = "", "Policy ID must be a non-empty string")
    \o pushIf(p.documentVersion = "",
              "Policy document version must be a non-empty string")
    \o pushIf(Len(getAllStatements(p)) = 0,
              "Policy must contain at least one statement. Use allow()/deny() methods or statement() method.")

NoPolicy == [id |-> "", document |-> [Version |-> "", Statement |-> <<>>]]

PolicyBuilder_build(p) ==
    LET errors == PolicyBuilder_validate(p) IN
    IF errors # <<>>
    THEN BuilderValidationError("Invalid policy configuration", errors, NoPolicy)
    ELSE Returned([id |-> p.policyId,
                   document |-> [Version |-> p.documentVersion,
                                 Statement |-> getAllStatements(p)]])

\* the variables a harness does not use
EvaluatorIdle ==
    /\ policies = <<>> /\ action = <<>> /\ resource = <<>>
    /\ context = EmptyObject /\ condition = EmptyObject
    /\ statement = IdleStatement /\ pattern = Str(<<>>) /\ value = <<>>
    /\ now = 0 /\ pc = "call" /\ result = FALSE
BuildersIdle ==
    /\ sb = NewStatementBuilder /\ pb = NewPolicyBuilder("")
    /\ out = <<>> /\ hist = <<>>
AccessIdle == call = <<>> /\ store = <<>>

----------------------------------------------------------------------------
(* Promises, as AccessControl.hasAccess uses them (src/core.ts:278-292).   *)
(* A promise is pending, fulfilled with a value or rejected with a reason. *)

Pending == [state |-> "pending", value |-> <<>>, reason |-> ""]
Fulfilled(v) == [state |-> "fulfilled", value |-> v, reason |-> ""]
Rejected(reason) == [state |-> "rejected", value |-> <<>>, reason |-> reason]

\* Promise.all(promises), where `order` lists the indices of the promises
\* in the order in which they settled: rejected with the reason of the
\* first promise that rejected; else fulfilled, once all are, with the
\* values in the order of the promises; else pending
PromiseAll_CompletionOrder(promises, order) ==
    IF \E i \in 1..Len(promises) : promises[i].state = "rejected"
    THEN Rejected(promises[SelectSeq(order,
                      LAMBDA i : promises[i].state = "rejected")[1]].reason)
    ELSE IF \A i \in 1..Len(promises) : promises[i].state = "fulfilled"
    THEN Fulfilled([k \in 1..Len(promises) |-> promises[order[k]].value])
    ELSE Pending
PromiseAll_AllSettled(promises, order) ==
    IF \A i \in 1..Len(promises) : promises[i].state # "pending"
    THEN Fulfilled([i \in 1..Len(promises) |-> promises[i].value])
    ELSE Pending
PromiseAll_Any(promises, order) ==
    IF \E i \in 1..Len(promises) : promises[i].state = "rejected"
    THEN Rejected(promises[SelectSeq(order,
                      LAMBDA i : promises[i].state = "rejected")[1]].reason)
    ELSE IF \E i \in 1..Len(promises) : promises[i].state = "fulfilled"
    THEN Fulfilled([i \in 1..Len(promises) |-> promises[i].value])
    ELSE Pending
PromiseAll(promises, order) ==
    IF \E i \in 1..Len(promises) : promises[i].state = "rejected"
    THEN Rejected(promises[SelectSeq(order,
                      LAMBDA i : promises[i].state = "rejected")[1]].reason)
    ELSE IF \A i \in 1..Len(promises) : promises[i].state = "fulfilled"
    THEN Fulfilled([i \in 1..Len(promises) |-> promises[i].value])
    ELSE Pending

\* rolePoliciesNested.flat()
flat(nested) == Concat(nested)

\* one call for each distinct role
rolesOf_Distinct(user) ==
    LET roles == IF user.hasRoles THEN user.roles ELSE <<>>
        first == {i \in 1..Len(roles) : \A j \in 1..(i - 1) : roles[j] # roles[i]}
        nth(k) == CHOOSE i \in first : Cardinality({j \in first : j < i}) = k - 1
    IN  [k \in 1..Cardinality(first) |-> roles[nth(k)]]

\* `user.roles || []`
rolesOf(user) == IF user.hasRoles THEN user.roles ELSE <<>>

\* the argument of createPolicy(): a PolicyBuilder or a Policy
PolicyBuilderArg(p) == [isBuilder |-> TRUE, builder |-> p, policy |-> NoPolicy]
PolicyArg(policy) ==
    [isBuilder |-> FALSE, builder |-> NewPolicyBuilder(""), policy |-> policy]

\* core.ts:127: `policy instanceof PolicyBuilder ? policy.build() : policy`
policyObject_Unvalidated(policy) ==
    IF policy.isBuilder
    THEN Returned([id |-> policy.builder.policyId,
                   document |-> [Version |-> policy.builder.documentVersion,
                                 Statement |-> getAllStatements(policy.builder)]])
    ELSE Returned(policy.policy)
policyObject(policy) ==
    IF policy.isBuilder THEN PolicyBuilder_build(policy.builder)
    ELSE Returned(policy.policy)


----------------------------------------------------------------------------
(* Harness of matches: a pattern (a string, or an array of strings) and a  *)
(* value are drawn, then matches runs.                                     *)

Chars == {"a", "b", "*", ".", "\n"}
Strings == SeqsUpTo(Chars, MaxLen)
ElementPatterns == SeqsUpTo(Chars, 1) \cup {<<"a", "*">>, <<"*", "b">>}
PatternArrays == SeqsUpTo(ElementPatterns, MaxPatterns)

InitMatch ==
    /\ pattern \in {Str(p) : p \in Strings} \cup {Arr(a) : a \in PatternArrays}
    /\ value \in Strings
    /\ policies = <<>> /\ action = <<>> /\ resource = <<>>
    /\ context = EmptyObject /\ condition = EmptyObject
    /\ statement = IdleStatement
    /\ now = 0 /\ pc = "call" /\ result = FALSE
    /\ BuildersIdle /\ AccessIdle

Match ==
    /\ pc = "call"
    /\ result' = matches(pattern, value)
    /\ pc' = "done"
    /\ UNCHANGED <<policies, action, resource, context, statement, pattern,
                   value, condition, now>>
    /\ UNCHANGED <<builderVars, accessVars>>

NextMatch == Match
SpecMatch == InitMatch /\ [][NextMatch]_vars

----------------------------------------------------------------------------
(* Harness of evaluateCondition *)

Keys == {"department", "level"}
Values == {JsString("engineering"), JsString("1"), JsNumber("1")}

InitCond ==
    /\ condition \in Objects(Keys, Values)
    /\ context \in Objects(Keys, Values)
    /\ policies = <<>> /\ action = <<>> /\ resource = <<>>
    /\ pattern = Str(<<>>) /\ value = <<>>
    /\ statement = IdleStatement
    /\ now = 0 /\ pc = "call" /\ result = FALSE
    /\ BuildersIdle /\ AccessIdle

EvalCondition ==
    /\ pc = "call"
    /\ result' = evaluateCondition(condition, context)
    /\ pc' = "done"
    /\ UNCHANGED <<policies, action, resource, context, statement, pattern,
                   value, condition, now>>
    /\ UNCHANGED <<builderVars, accessVars>>

NextCond == EvalCondition
SpecCond == InitCond /\ [][NextCond]_vars

----------------------------------------------------------------------------
(* Harness of isStatementActive: a statement with any StartDate and EndDate *)
(* (absent, empty, unparseable, parseable), and a clock that ticks.         *)

Tick ==
    /\ now < MaxTime
    /\ now' = now + 1
    /\ pc' = "call"
    /\ result' = FALSE
    /\ UNCHANGED <<policies, action, resource, context, statement, pattern,
                   value, condition>>
    /\ UNCHANGED <<builderVars, accessVars>>

InitActive ==
    /\ statement \in {Statement("Allow", <<<<"r">>>>, <<<<"d">>>>, FALSE, EmptyObject, sd, ed) :
                         sd \in DateStrings \cup {Undefined},
                         ed \in DateStrings \cup {Undefined}}
    /\ policies = <<>> /\ action = <<>> /\ resource = <<>>
    /\ context = EmptyObject /\ condition = EmptyObject
    /\ pattern = Str(<<>>) /\ value = <<>>
    /\ now = 0 /\ pc = "call" /\ result = FALSE
    /\ BuildersIdle /\ AccessIdle

CheckActive ==
    /\ pc = "call"
    /\ result' = isStatementActive(statement, now)
    /\ pc' = "done"
    /\ UNCHANGED <<policies, action, resource, context, statement, pattern,
                   value, condition, now>>
    /\ UNCHANGED <<builderVars, accessVars>>

NextActive == CheckActive \/ Tick
SpecActive == InitActive /\ [][NextActive]_vars

----------------------------------------------------------------------------
(* Harness of evaluate.  The statements come from six shapes, each as an   *)
(* Allow and as a Deny: a broad grant, a narrow one, one with a Condition, *)
(* one that starts later, one that expires, one with an unparseable date.  *)
(* The policies of a call hold at most MaxStatements statements in all.    *)

Read == <<"r">>
Write == <<"w">>
Document == <<"d">>
DocumentSecret == <<"d", ":", "s">>
Engineering == [k \in {"department"} |-> JsString("engineering")]
Marketing == [k \in {"department"} |-> JsString("marketing")]

StatementsOf(effect) ==
    { Statement(effect, <<Read, Write>>, <<<<"*">>>>, FALSE, EmptyObject, Undefined, Undefined),
      Statement(effect, <<Write>>, <<<<"d", ":", "*">>>>, FALSE, EmptyObject, Undefined, Undefined),
      Statement(effect, <<Read, Write>>, <<<<"*">>>>, TRUE, Engineering, Undefined, Undefined),
      Statement(effect, <<Read, Write>>, <<<<"*">>>>, FALSE, EmptyObject, "2025-05-01T12:00:00Z", Undefined),
      Statement(effect, <<Read, Write>>, <<<<"*">>>>, FALSE, EmptyObject, Undefined, "2025-04-01"),
      Statement(effect, <<Read, Write>>, <<<<"*">>>>, FALSE, EmptyObject, "invalid-date", Undefined) }

StatementUniverse == StatementsOf("Allow") \cup StatementsOf("Deny")

Policy(id, statements) ==
    [id |-> id, document |-> [Version |-> "2023-10-17", Statement |-> statements]]

(* the policies made of the statements ss, a new policy starting at index *)
(* 1 and at each index of starts                                           *)
Group(ss, starts) ==
    IF ss = <<>> THEN <<>>
    ELSE LET B      == starts \cup {1}
             nth(i) == CHOOSE b \in B : Cardinality({c \in B : c < b}) = i - 1
             end(i) == IF i = Cardinality(B) THEN Len(ss) ELSE nth(i + 1) - 1
         IN  [i \in 1..Cardinality(B) |->
                 Policy(ToString(i), SubSeq(ss, nth(i), end(i)))]

PolicyLists ==
    UNION { {Group(ss, starts) : starts \in SUBSET (2..Len(ss))} :
              ss \in SeqsUpTo(StatementUniverse, MaxStatements) }

InitEval ==
    /\ policies \in PolicyLists
    /\ action \in {Read, Write}
    /\ resource \in {Document, DocumentSecret}
    /\ context \in {EmptyObject, Engineering, Marketing}
    /\ condition = EmptyObject
    /\ pattern = Str(<<>>) /\ value = <<>>
    /\ statement = IdleStatement
    /\ now = 0 /\ pc = "call" /\ result = FALSE
    /\ BuildersIdle /\ AccessIdle

Evaluate ==
    /\ pc = "call"
    /\ result' = evaluate(policies, action, resource, context, now)
    /\ pc' = "done"
    /\ UNCHANGED <<policies, action, resource, context, statement, pattern,
                   value, condition, now>>
    /\ UNCHANGED <<builderVars, accessVars>>

NextEval == Evaluate \/ Tick
SpecEval == InitEval /\ [][NextEval]_vars

----------------------------------------------------------------------------
(* A StatementBuilder under any sequence of its setters and build().       *)
(* hist records the arguments of the most recent call of each setter.      *)

ActionLists == {<<>>, <<Read>>, <<Write>>, <<Read, <<>>, Write>>}
ResourceLists == {<<>>, <<Document>>, <<Document, <<>>>>}
ConditionArgs == {EmptyObject, Engineering}
DateArgs == DateStrings

NoCalls ==
    [effect |-> Undefined, actions |-> <<>>, onCalled |-> FALSE,
     resources |-> <<>>, whenCalled |-> FALSE, conditions |-> EmptyObject,
     startDate |-> Undefined, endDate |-> Undefined]

Outcome(op, r) ==
    [op |-> op, threw |-> r.threw, message |-> r.message, errors |-> r.errors,
     value |-> r.value]
NoOutcome == Outcome("none", Returned(IdleStatement))

InitStatementBuilder ==
    /\ sb = NewStatementBuilder
    /\ hist = NoCalls
    /\ out = NoOutcome
    /\ pb = NewPolicyBuilder("")
    /\ EvaluatorIdle /\ AccessIdle

Allow ==
    \E actions \in ActionLists :
        /\ sb' = StatementBuilder_allow(sb, actions)
        /\ hist' = [hist EXCEPT !.effect = "allow", !.actions = actions]
        /\ out' = NoOutcome
        /\ UNCHANGED <<pb, evaluatorVars, accessVars>>

Deny ==
    \E actions \in ActionLists :
        /\ sb' = StatementBuilder_deny(sb, actions)
        /\ hist' = [hist EXCEPT !.effect = "deny", !.actions = actions]
        /\ out' = NoOutcome
        /\ UNCHANGED <<pb, evaluatorVars, accessVars>>

On ==
    \E resources \in ResourceLists :
        /\ sb' = StatementBuilder_on(sb, resources)
        /\ hist' = [hist EXCEPT !.onCalled = TRUE, !.resources = resources]
        /\ out' = NoOutcome
        /\ UNCHANGED <<pb, evaluatorVars, accessVars>>

When ==
    \E conditions \in ConditionArgs :
        /\ sb' = StatementBuilder_when(sb, conditions)
        /\ hist' = [hist EXCEPT !.whenCalled = TRUE, !.conditions = conditions]
        /\ out' = NoOutcome
        /\ UNCHANGED <<pb, evaluatorVars, accessVars>>

ActiveFrom ==
    \E startDate \in DateArgs :
        /\ sb' = StatementBuilder_activeFrom(sb, startDate)
        /\ hist' = [hist EXCEPT !.startDate = startDate]
        /\ out' = NoOutcome
        /\ UNCHANGED <<pb, evaluatorVars, accessVars>>

ActiveUntil ==
    \E endDate \in DateArgs :
        /\ sb' = StatementBuilder_activeUntil(sb, endDate)
        /\ hist' = [hist EXCEPT !.endDate = endDate]
        /\ out' = NoOutcome
        /\ UNCHANGED <<pb, evaluatorVars, accessVars>>

Build ==
    /\ out' = Outcome("build", StatementBuilder_build(sb))
    /\ UNCHANGED <<sb, hist, pb, evaluatorVars, accessVars>>

NextStatementBuilder ==
    Allow \/ Deny \/ On \/ When \/ ActiveFrom \/ ActiveUntil \/ Build
SpecStatementBuilder == InitStatementBuilder /\ [][NextStatementBuilder]_vars

----------------------------------------------------------------------------
(* A PolicyBuilder under any sequence of its methods.  sb is a             *)
(* StatementBuilder that is given every simple-mode call the PolicyBuilder *)
(* accepted.  hist records which kinds of call were made and returned, now *)
(* and before the last call, and the last version() argument.              *)

MaxPolicyStatements == 2

PolicyIds == {"", "policy-1"}
Versions == {"", "2024-01-01"}
PolicyActionLists == {<<>>, <<Read>>}
PolicyDateArgs == {"", "invalid-date", "2025-04-01", "2025-06-01T00:00:00Z"}

ValidBuilder ==
    StatementBuilder_on(StatementBuilder_deny(NewStatementBuilder, <<Write>>),
                        <<Document>>)
InvalidBuilder == StatementBuilder_allow(NewStatementBuilder, <<Read>>)
ValidLiteral ==
    Statement("Allow", <<Read>>, <<Document>>, FALSE, EmptyObject, Undefined, Undefined)
InvalidLiteral ==
    Statement("Allow", <<>>, <<Document>>, FALSE, EmptyObject, Undefined, Undefined)
StatementArgs ==
    {BuilderArg(ValidBuilder), BuilderArg(InvalidBuilder),
     StatementArg(ValidLiteral), StatementArg(InvalidLiteral)}

Flags(h) ==
    [statementReturned |-> h.statementReturned, simpleCalled |-> h.simpleCalled,
     simpleReturned |-> h.simpleReturned]
NoPolicyCalls ==
    [statementReturned |-> FALSE, simpleCalled |-> FALSE, simpleReturned |-> FALSE,
     version |-> Undefined,
     before |-> [statementReturned |-> FALSE, simpleCalled |-> FALSE,
                 simpleReturned |-> FALSE],
     added |-> <<>>]

\* what the caller hands over with one argument of statement(): the statement
\* its StatementBuilder builds at the time of the call, or the statement itself
handedOver(arg) ==
    IF arg.isBuilder THEN StatementBuilder_build(arg.builder).value
    ELSE arg.statement

\* the outcome of a PolicyBuilder method other than build(): `this` or an error
Chained(op, r) == Outcome(op, [r EXCEPT !.value = NoPolicy])

InitPolicyBuilder ==
    /\ pb \in {NewPolicyBuilder(id) : id \in PolicyIds}
    /\ sb = NewStatementBuilder
    /\ hist = NoPolicyCalls
    /\ out = Chained("none", Returned(NoPolicy))
    /\ EvaluatorIdle /\ AccessIdle

Version ==
    \E version \in Versions :
        /\ pb' = PolicyBuilder_version(pb, version)
        /\ hist' = [hist EXCEPT !.version = version, !.before = Flags(hist)]
        /\ out' = Chained("version", Returned(NoPolicy))
        /\ UNCHANGED <<sb, evaluatorVars, accessVars>>

\* a simple-mode call: r is its outcome on pb, b the twin StatementBuilder
\* after the same call
SimpleCall(r, b) ==
    /\ pb' = r.value
    /\ sb' = IF r.threw THEN sb ELSE b
    /\ hist' = [hist EXCEPT !.simpleCalled = TRUE,
                            !.simpleReturned = @ \/ ~r.threw,
                            !.before = Flags(hist)]
    /\ out' = Chained("simple", r)
    /\ UNCHANGED <<evaluatorVars, accessVars>>

PolicyAllow ==
    \E actions \in PolicyActionLists :
        SimpleCall(PolicyBuilder_allow(pb, actions), StatementBuilder_allow(sb, actions))
PolicyDeny ==
    \E actions \in PolicyActionLists :
        SimpleCall(PolicyBuilder_deny(pb, actions), StatementBuilder_deny(sb, actions))
PolicyOn ==
    \E resources \in ResourceLists :
        SimpleCall(PolicyBuilder_on(pb, resources), StatementBuilder_on(sb, resources))
PolicyWhen ==
    \E conditions \in ConditionArgs :
        SimpleCall(PolicyBuilder_when(pb, conditions),
                   StatementBuilder_when(sb, conditions))
PolicyActiveFrom ==
    \E startDate \in PolicyDateArgs :
        SimpleCall(PolicyBuilder_activeFrom(pb, startDate),
                   StatementBuilder_activeFrom(sb, startDate))
PolicyActiveUntil ==
    \E endDate \in PolicyDateArgs :
        SimpleCall(PolicyBuilder_activeUntil(pb, endDate),
                   StatementBuilder_activeUntil(sb, endDate))

AddStatement ==
    \E arg \in StatementArgs :
        LET r == PolicyBuilder_statement(pb, arg) IN
        /\ Len(pb.policyStatements) < MaxPolicyStatements
        /\ pb' = r.value
        /\ hist' = [hist EXCEPT !.statementReturned = @ \/ ~r.threw,
                                !.before = Flags(hist),
                                !.added = IF r.threw THEN @
                                          ELSE Append(@, handedOver(arg))]
        /\ out' = Chained("statement", r)
        /\ UNCHANGED <<sb, evaluatorVars, accessVars>>

AddStatements ==
    \E args \in SeqsUpTo(StatementArgs, MaxPolicyStatements) :
        LET r == PolicyBuilder_addStatements(pb, args) IN
        /\ Len(pb.policyStatements) + Len(args) <= MaxPolicyStatements
        /\ pb' = r.value
        /\ hist' = [hist EXCEPT
                        !.statementReturned =
                            @ \/ Len(r.value.policyStatements) > Len(pb.policyStatements),
                        !.before = Flags(hist),
                        !.added = IF r.threw THEN @
                                  ELSE @ \o [i \in 1..Len(args) |-> handedOver(args[i])]]
        /\ out' = Chained("addStatements", r)
        /\ UNCHANGED <<sb, evaluatorVars, accessVars>>

PolicyBuild ==
    /\ out' = Outcome("build", PolicyBuilder_build(pb))
    /\ hist' = [hist EXCEPT !.before = Flags(hist)]
    /\ UNCHANGED <<pb, sb, evaluatorVars, accessVars>>

NextPolicyBuilder ==
    \/ Version
    \/ PolicyAllow \/ PolicyDeny \/ PolicyOn \/ PolicyWhen
    \/ PolicyActiveFrom \/ PolicyActiveUntil
    \/ AddStatement \/ AddStatements
    \/ PolicyBuild
SpecPolicyBuilder == InitPolicyBuilder /\ [][NextPolicyBuilder]_vars

----------------------------------------------------------------------------
(* AccessControl.createPolicy (src/core.ts:126-129) over a repository that *)
(* logs what it is handed.                                                 *)

NoStore == [log |-> <<>>]

\* PolicyBuilders as a caller can have prepared them
PreparedBuilders ==
    UNION {
        {PolicyBuilder_on(PolicyBuilder_allow(p, actions).value, resources).value :
             actions \in PolicyActionLists, resources \in ResourceLists}
        \cup {PolicyBuilder_statement(p, arg).value : arg \in StatementArgs}
        \cup {PolicyBuilder_activeFrom(PolicyBuilder_on(
                  PolicyBuilder_deny(p, <<Read>>).value, <<Document>>).value,
                  startDate).value : startDate \in PolicyDateArgs}
        : p \in {PolicyBuilder_version(NewPolicyBuilder(id), version) :
                     id \in PolicyIds, version \in Versions \cup {"2023-11-15"}} }

LiteralPolicies ==
    {Policy("p1", <<ValidLiteral>>), Policy("", <<>>),
     Policy("p2", <<ValidLiteral, InvalidLiteral>>)}

InitCreatePolicy ==
    /\ call \in [pc : {"idle"},
                 policy : {PolicyBuilderArg(p) : p \in PreparedBuilders}
                          \cup {PolicyArg(policy) : policy \in LiteralPolicies}]
    /\ store = NoStore
    /\ out = Outcome("none", Returned(NoPolicy))
    /\ sb = NewStatementBuilder /\ pb = NewPolicyBuilder("") /\ hist = <<>>
    /\ EvaluatorIdle

\* the synchronous part: build, then hand the Policy to the repository
CreatePolicy ==
    /\ call.pc = "idle"
    /\ LET built == policyObject(call.policy) IN
       IF built.threw
       THEN /\ out' = Outcome("createPolicy", built)
            /\ call' = [call EXCEPT !.pc = "rejected"]
            /\ UNCHANGED store
       ELSE /\ store' = [store EXCEPT !.log = Append(@, <<"createPolicy", built.value>>)]
            /\ call' = [call EXCEPT !.pc = "await"]
            /\ UNCHANGED out
    /\ UNCHANGED <<sb, pb, hist, evaluatorVars>>

\* the repository's promise settles and createPolicy returns or throws what
\* it gave
RepositorySettles ==
    /\ call.pc = "await"
    /\ \/ /\ out' = Outcome("createPolicy", Returned(store.log[Len(store.log)][2]))
          /\ call' = [call EXCEPT !.pc = "resolved"]
       \/ /\ out' = Outcome("createPolicy",
                            [threw |-> TRUE, message |-> "Database connection failed",
                             errors |-> <<>>, value |-> NoPolicy])
          /\ call' = [call EXCEPT !.pc = "rejected"]
    /\ UNCHANGED <<store, sb, pb, hist, evaluatorVars>>

NextCreatePolicy == CreatePolicy \/ RepositorySettles
SpecCreatePolicy == InitCreatePolicy /\ [][NextCreatePolicy]_vars

----------------------------------------------------------------------------
(* AccessControl.hasAccess (src/core.ts:278-292): one invocation, with the *)
(* repository's promises settling in any order, each fulfilled with what   *)
(* the repository holds or rejected.                                       *)

MaxRoles == 2

UserId == "u1"
RoleIds == {"r1", "r2"}
P1 == Policy("p1", <<Statement("Allow", <<Read>>, <<Document>>, FALSE, EmptyObject,
                               Undefined, Undefined)>>)
P2 == Policy("p2", <<Statement("Allow", <<Write>>, <<Document>>, FALSE, EmptyObject,
                               Undefined, Undefined)>>)
P3 == Policy("p3", <<Statement("Deny", <<Read>>, <<Document>>, FALSE, EmptyObject,
                               Undefined, Undefined)>>)

Users ==
    {[id |-> UserId, hasRoles |-> FALSE, roles |-> <<>>]}
    \cup {[id |-> UserId, hasRoles |-> TRUE, roles |-> roles] :
              roles \in SeqsUpTo(RoleIds, MaxRoles)}

UserNotFound == "User not found"
UserPoliciesFailed == "Failed to get user policies"
RolePoliciesFailed(roleId) ==
    IF roleId = "r1" THEN "Role not found: r1" ELSE "Role not found: r2"

StoredUserPolicies == {<<>>, <<P1>>}
StoredRolePolicies ==
    {[r \in RoleIds |-> IF r = "r1" THEN <<P2>> ELSE p] : p \in {<<P3>>, <<P1, P3>>}}

InitAccess ==
    /\ store \in [user : Users,
                  userPolicies : StoredUserPolicies,
                  rolePolicies : StoredRolePolicies,
                  log : {<<>>}]
    /\ call = [pc |-> "idle", user |-> [id |-> UserId, hasRoles |-> FALSE, roles |-> <<>>],
               direct |-> Pending, roleIds |-> <<>>,
               rolePromises |-> <<>>, order |-> <<>>, rolePoliciesNested |-> <<>>,
               userFailed |-> FALSE, evaluated |-> FALSE, returned |-> FALSE,
               error |-> ""]
    /\ policies = <<>> /\ action = Read /\ resource = Document
    /\ context = EmptyObject /\ condition = EmptyObject
    /\ statement = IdleStatement /\ pattern = Str(<<>>) /\ value = <<>>
    /\ now = 0 /\ pc = "call" /\ result = FALSE
    /\ BuildersIdle

\* line 279, up to the await: getUser is called
HasAccess ==
    /\ call.pc = "idle"
    /\ store' = [store EXCEPT !.log = Append(@, <<"getUser", UserId>>)]
    /\ call' = [call EXCEPT !.pc = "awaitUser"]
    /\ UNCHANGED <<evaluatorVars, builderVars>>

\* getUser rejects: the await throws and hasAccess rejects with that reason
GetUserFails ==
    /\ call.pc = "awaitUser"
    /\ call' = [call EXCEPT !.pc = "rejected", !.error = UserNotFound,
                            !.userFailed = TRUE]
    /\ UNCHANGED <<store, evaluatorVars, builderVars>>

\* getUser fulfils; lines 281-285 up to the inner await: getUserPolicies is
\* called, then getRolePolicies for each role of the user, in order
GetUserReturns ==
    /\ call.pc = "awaitUser"
    /\ LET user == store.user
           roles == rolesOf(user)
       IN
       /\ store' = [store EXCEPT !.log =
                        @ \o <<<<"getUserPolicies", UserId>>>>
                          \o [i \in 1..Len(roles) |-> <<"getRolePolicies", roles[i]>>]]
       /\ call' = [call EXCEPT !.pc = "awaitRoles", !.user = user,
                               !.direct = Pending, !.roleIds = roles,
                               !.rolePromises = [i \in 1..Len(roles) |-> Pending]]
    /\ UNCHANGED <<evaluatorVars, builderVars>>

Issued == call.pc \notin {"idle", "awaitUser"} /\ ~call.userFailed

\* the promise of getUserPolicies settles
DirectSettles ==
    /\ Issued /\ call.direct.state = "pending"
    /\ \E p \in {Fulfilled(store.userPolicies), Rejected(UserPoliciesFailed)} :
           call' = [call EXCEPT !.direct = p]
    /\ UNCHANGED <<store, evaluatorVars, builderVars>>

\* the promise of one getRolePolicies call settles
RoleSettles ==
    /\ Issued
    /\ \E i \in 1..Len(call.rolePromises) :
           /\ call.rolePromises[i].state = "pending"
           /\ \E p \in {Fulfilled(store.rolePolicies[call.roleIds[i]]),
                        Rejected(RolePoliciesFailed(call.roleIds[i]))} :
                  call' = [call EXCEPT !.rolePromises[i] = p,
                                       !.order = Append(@, i)]
    /\ UNCHANGED <<store, evaluatorVars, builderVars>>

\* line 283: the inner `await Promise.all(...)` resumes
AfterRoles ==
    /\ call.pc = "awaitRoles"
    /\ LET inner == PromiseAll(call.rolePromises, call.order) IN
       /\ inner.state # "pending"
       /\ call' = IF inner.state = "rejected"
                  THEN [call EXCEPT !.pc = "rejected", !.error = inner.reason]
                  ELSE [call EXCEPT !.pc = "awaitAll",
                                    !.rolePoliciesNested = inner.value]
    /\ UNCHANGED <<store, evaluatorVars, builderVars>>

\* lines 281-291: the outer `await Promise.all([...])` resumes; on success
\* the policies are combined and evaluate is called
AfterAll ==
    /\ call.pc = "awaitAll"
    /\ LET outer == PromiseAll(<<call.direct, Fulfilled(call.rolePoliciesNested)>>,
                               <<1, 2>>)
       IN
       /\ outer.state # "pending"
       /\ IF outer.state = "rejected"
          THEN /\ call' = [call EXCEPT !.pc = "rejected", !.error = outer.reason]
               /\ UNCHANGED <<policies, result>>
          ELSE LET getUserPolicies == outer.value[1]
                   rolePolicies == flat(outer.value[2])
                   allPolicies == getUserPolicies \o rolePolicies
               IN  /\ policies' = allPolicies
                   /\ result' = evaluate(allPolicies, action, resource, context, now)
                   /\ call' = [call EXCEPT !.pc = "resolved", !.evaluated = TRUE,
                                           !.returned = result']
    /\ UNCHANGED <<store, action, resource, context, statement, pattern, value,
                   condition, now, pc, builderVars>>

NextAccess ==
    \/ HasAccess \/ GetUserFails \/ GetUserReturns
    \/ DirectSettles \/ RoleSettles
    \/ AfterRoles \/ AfterAll
\* every promise of the repository settles, and a continuation whose
\* promise has settled runs
FairAccess ==
    /\ WF_vars(GetUserFails \/ GetUserReturns)
    /\ WF_vars(DirectSettles) /\ WF_vars(RoleSettles)
    /\ WF_vars(AfterRoles) /\ WF_vars(AfterAll)
SpecAccess == InitAccess /\ [][NextAccess]_vars
SpecAccessFair == InitAccess /\ [][NextAccess]_vars /\ FairAccess


----------------------------------------------------------------------------
(* What the claims speak of, in the claims' own terms *)

(* the positions <<policy, statement>> of the statements of a policy list *)
Positions(ps) ==
    UNION {{<<i, j>> : j \in 1..Len(ps[i].document.Statement)} : i \in 1..Len(ps)}

StatementAt(ps, pos) == ps[pos[1]].document.Statement[pos[2]]

(* the policy list without the statement at pos *)
Without(ps, pos) ==
    [ps EXCEPT ![pos[1]].document.Statement =
        [k \in 1..(Len(@) - 1) |-> IF k < pos[2] THEN @[k] ELSE @[k + 1]]]

(* every key of cond is a key of ctx with the same value *)
Satisfies(ctx, cond) ==
    \A k \in DOMAIN cond : k \in DOMAIN ctx /\ ctx[k] = cond[k]

MatchesAny(patterns, v) == \E i \in 1..Len(patterns) : matches(Str(patterns[i]), v)

(* the statement matches the request of the current call, dates and       *)
(* Condition aside                                                         *)
MatchesRequest(st) == MatchesAny(st.Action, action) /\ MatchesAny(st.Resource, resource)

ConditionHolds(st) == st.HasCondition => Satisfies(context, st.Condition)

Applicable(st) ==
    isStatementActive(st, now) /\ ConditionHolds(st) /\ MatchesRequest(st)

SomeApplicable(effect) ==
    \E pos \in Positions(policies) :
        StatementAt(policies, pos).Effect = effect /\ Applicable(StatementAt(policies, pos))

PermutationsOf(seq) ==
    {[i \in 1..Len(seq) |-> seq[f[i]]] : f \in Permutations(1..Len(seq))}

(* value is the pattern with some string, possibly empty, put for each '*' *)
RECURSIVE Glob(_, _)
Glob(p, v) ==
    IF p = <<>> THEN v = <<>>
    ELSE IF Head(p) = "*"
         THEN \E k \in 0..Len(v) : Glob(Tail(p), SubSeq(v, k + 1, Len(v)))
         ELSE v # <<>> /\ Head(v) = Head(p) /\ Glob(Tail(p), Tail(v))

Parseable(dateString) == dateString # Undefined /\ ~isNaN(getTime(dateString))

----------------------------------------------------------------------------
(* C1: deny-override.  If some statement of the policies is active, has    *)
(* its Condition (if any) satisfied, matches action and resource and has   *)
(* Effect Deny, evaluate returns false, wherever the statement stands and  *)
(* whatever Allow statements match.                                        *)
C1_DenyOverride ==
    pc = "done" => (SomeApplicable("Deny") => result = FALSE)

(* an applicable Allow in the first policy, an applicable Deny in a later one *)
C1_Witness ==
    /\ pc = "done"
    /\ \E p, q \in Positions(policies) :
          /\ p[1] = 1 /\ q[1] > 1
          /\ StatementAt(policies, p).Effect = "Allow" /\ Applicable(StatementAt(policies, p))
          /\ StatementAt(policies, q).Effect = "Deny" /\ Applicable(StatementAt(policies, q))
    /\ result = FALSE

(* C2: evaluate returns true if and only if some statement is applicable   *)
(* with Effect Allow and none is applicable with Effect Deny; so no        *)
(* policies, or no matching statement, give false.                         *)
C2_AllowedIff ==
    pc = "done" => (result = (SomeApplicable("Allow") /\ ~SomeApplicable("Deny")))

(* access granted although the policies hold a Deny statement (one that is *)
(* not applicable to this request)                                         *)
C2_Witness ==
    /\ pc = "done"
    /\ result = TRUE
    /\ \E pos \in Positions(policies) : StatementAt(policies, pos).Effect = "Deny"

(* C3: order independence.  evaluate returns the same boolean for every    *)
(* permutation of the policy sequence, the request being the same.         *)
C3_OrderIndependent ==
    pc = "done" =>
        \A ps \in PermutationsOf(policies) :
            evaluate(ps, action, resource, context, now) = result

(* an applicable Deny in the first policy, an applicable Allow in the last *)
C3_Witness ==
    /\ pc = "done"
    /\ Len(policies) >= 2
    /\ \E p, q \in Positions(policies) :
          /\ p[1] = 1 /\ q[1] = Len(policies)
          /\ StatementAt(policies, p).Effect = "Deny" /\ Applicable(StatementAt(policies, p))
          /\ StatementAt(policies, q).Effect = "Allow" /\ Applicable(StatementAt(policies, q))
    /\ result = FALSE

(* C4: temporal gating.  A statement for which isStatementActive is false  *)
(* contributes nothing: evaluate returns what it returns for the policies  *)
(* without that statement.                                                 *)
C4_InactiveSkipped ==
    pc = "done" =>
        \A pos \in Positions(policies) :
            ~isStatementActive(StatementAt(policies, pos), now) =>
                evaluate(Without(policies, pos), action, resource, context, now) = result

(* an inactive Deny that otherwise matches does not deny, and an inactive  *)
(* Allow that otherwise matches is present in a call that is refused       *)
C4_Witness ==
    /\ pc = "done"
    /\ \E pos \in Positions(policies) :
          LET st == StatementAt(policies, pos) IN
          /\ ~isStatementActive(st, now) /\ ConditionHolds(st) /\ MatchesRequest(st)
          /\ \/ st.Effect = "Deny" /\ result = TRUE
             \/ st.Effect = "Allow" /\ result = FALSE /\ Len(policies) = 1

(* C5: condition gating.  A statement whose Condition is set and is not    *)
(* satisfied by the context (a value that differs, a key that is missing)  *)
(* is skipped: evaluate returns what it returns without that statement.    *)
C5_UnsatisfiedConditionSkipped ==
    pc = "done" =>
        \A pos \in Positions(policies) :
            LET st == StatementAt(policies, pos) IN
            (st.HasCondition /\ ~Satisfies(context, st.Condition)) =>
                evaluate(Without(policies, pos), action, resource, context, now) = result

(* a Deny whose Condition names a key the context lacks does not deny a    *)
(* request that is granted                                                 *)
C5_Witness ==
    /\ pc = "done"
    /\ result = TRUE
    /\ \E pos \in Positions(policies) :
          LET st == StatementAt(policies, pos) IN
          /\ st.Effect = "Deny" /\ st.HasCondition
          /\ \E k \in DOMAIN st.Condition : k \notin DOMAIN context
          /\ isStatementActive(st, now) /\ MatchesRequest(st)

(* C6: with parseable dates the statement is active if and only if         *)
(* (StartDate is absent or now >= StartDate) and (EndDate is absent or     *)
(* now <= EndDate); both boundaries are inclusive.                         *)
C6_ActiveWindow ==
    (pc = "done"
       /\ (statement.StartDate = Undefined \/ Parseable(statement.StartDate))
       /\ (statement.EndDate = Undefined \/ Parseable(statement.EndDate)))
    => (result = (/\ statement.StartDate = Undefined \/ now >= getTime(statement.StartDate)
                  /\ statement.EndDate = Undefined \/ now <= getTime(statement.EndDate)))

(* now on both boundaries at once *)
C6_Witness ==
    /\ pc = "done"
    /\ Parseable(statement.StartDate) /\ Parseable(statement.EndDate)
    /\ now = getTime(statement.StartDate) /\ now = getTime(statement.EndDate)
    /\ result = TRUE

(* C7: isStatementActive fails closed.  Whenever a StartDate is present    *)
(* and cannot be parsed, or an EndDate is present and cannot be parsed,    *)
(* isStatementActive returns false.                                        *)
C7_FailsClosed ==
    (pc = "done"
       /\ \/ statement.StartDate # Undefined /\ isNaN(getTime(statement.StartDate))
          \/ statement.EndDate # Undefined /\ isNaN(getTime(statement.EndDate)))
    => result = FALSE

(* C8: a single pattern matches a value if and only if the value is the    *)
(* pattern's literal segments with an arbitrary, possibly empty, string of *)
(* any characters at each '*', anchored at both ends.                      *)
C8_WildcardAnyCharacters ==
    (pc = "done" /\ ~pattern.isArray) => (result = Glob(pattern.val, value))

(* C9: matches on an array of patterns is true if and only if matches is   *)
(* true of at least one element.                                           *)
C9_ArrayIsAny ==
    (pc = "done" /\ pattern.isArray) =>
        (result = \E i \in 1..Len(pattern.val) : matches(Str(pattern.val[i]), value))

(* the first element does not match, a later one does *)
C9_Witness ==
    /\ pc = "done" /\ pattern.isArray
    /\ Len(pattern.val) >= 2
    /\ ~matches(Str(pattern.val[1]), value)
    /\ matches(Str(pattern.val[Len(pattern.val)]), value)
    /\ result = TRUE

(* C10: evaluateCondition is true if and only if every key of condition is *)
(* a key of context with an exactly equal value; a missing key makes it    *)
(* false, keys of context alone are ignored, an empty condition is true.   *)
C10_ConditionIff ==
    pc = "done" => (result = Satisfies(context, condition))

(* a condition that holds in a context with a further key *)
C10_Witness ==
    /\ pc = "done"
    /\ condition # EmptyObject
    /\ \E k \in DOMAIN context : k \notin DOMAIN condition
    /\ result = TRUE

----------------------------------------------------------------------------
(* StatementBuilder claims, in terms of the calls made (hist), under       *)
(* SpecStatementBuilder.                                                   *)

Range(seq) == {seq[i] : i \in 1..Len(seq)}

\* a date "present": the most recent activeFrom / activeUntil call gave it
Present(dateString) == dateString # Undefined

\* the validation rules of build() that the calls so far violate, each named
\* by the message that reports it
ViolatedRules(h) ==
       {"Effect must be set using either allow() or deny()" :
            x \in {1} \cap (IF h.effect = Undefined THEN {1} ELSE {})}
  \cup {"At least one action must be specified" :
            x \in {1} \cap (IF h.actions = <<>> THEN {1} ELSE {})}
  \cup {"At least one resource must be specified using on()" :
            x \in {1} \cap (IF h.resources = <<>> THEN {1} ELSE {})}
  \cup {"All actions must be non-empty strings" :
            x \in {1} \cap (IF <<>> \in Range(h.actions) THEN {1} ELSE {})}
  \cup {"All resources must be non-empty strings" :
            x \in {1} \cap (IF <<>> \in Range(h.resources) THEN {1} ELSE {})}
  \cup {"StartDate must be a valid ISO format date string" :
            x \in {1} \cap (IF Present(h.startDate) /\ ~Parseable(h.startDate)
                            THEN {1} ELSE {})}
  \cup {"EndDate must be a valid ISO format date string" :
            x \in {1} \cap (IF Present(h.endDate) /\ ~Parseable(h.endDate)
                            THEN {1} ELSE {})}
  \cup {"StartDate must be before EndDate" :
            x \in {1} \cap (IF /\ Parseable(h.startDate) /\ Parseable(h.endDate)
                               /\ getTime(h.startDate) >= getTime(h.endDate)
                            THEN {1} ELSE {})}

WellFormed(st) ==
    /\ st.Effect \in {"Allow", "Deny"}
    /\ st.Action # <<>> /\ <<>> \notin Range(st.Action)
    /\ st.Resource # <<>> /\ <<>> \notin Range(st.Resource)
    /\ Present(st.StartDate) => Parseable(st.StartDate)
    /\ Present(st.EndDate) => Parseable(st.EndDate)
    /\ Present(st.StartDate) /\ Present(st.EndDate)
           => getTime(st.StartDate) < getTime(st.EndDate)

\* C12: when build() fails, its error lists every violated rule (and so at
\* least three when effect, actions and the date range are all wrong).
\* Violated by activeFrom('') / activeUntil(''): the empty string is falsy,
\* so the unparseable date is not reported (part_004:132,139).
C12_AllViolationsListed ==
    out.op = "build" /\ out.threw
        => ViolatedRules(hist) \subseteq Range(out.errors)

\* C13: build() returns a statement iff no validation rule is violated, and
\* every statement it returns is well-formed.  Violated by the same empty
\* date string: build() returns although the StartDate given is unparseable.
C13_BuildsIffValid ==
    out.op = "build"
        => /\ ~out.threw <=> ViolatedRules(hist) = {}
           /\ ~out.threw => WellFormed(out.value)

\* C14: the built statement carries the arguments of the most recent
\* allow/deny, on, when, activeFrom and activeUntil calls, and fields never
\* set are absent.  Violated by activeFrom('') / activeUntil(''): the built
\* statement has no StartDate / EndDate (part_004:189-195).
C14_LastCallWins ==
    out.op = "build" /\ ~out.threw
        => /\ out.value.Effect = (IF hist.effect = "allow" THEN "Allow" ELSE "Deny")
           /\ out.value.Action = hist.actions
           /\ out.value.Resource = hist.resources
           /\ out.value.HasCondition = hist.whenCalled
           /\ hist.whenCalled => out.value.Condition = hist.conditions
           /\ out.value.StartDate = hist.startDate
           /\ out.value.EndDate = hist.endDate

----------------------------------------------------------------------------
(* PolicyBuilder claims, under SpecPolicyBuilder.                          *)

\* C11 as stated: after a statement() call that returned, every simple-mode
\* call raises; after any simple-mode call, every statement() call raises.
\* Violated: a simple-mode call that was made after statement() raises and
\* changes nothing, so a later statement() call still returns.
C11_ModeExclusive_AsStated ==
    /\ out.op = "simple" /\ hist.before.statementReturned => out.threw
    /\ out.op = "statement" /\ hist.before.simpleCalled => out.threw

\* C11 (amended): after a statement() call that returned, every simple-mode
\* call raises a validation error; after a simple-mode call that returned,
\* every statement() call raises a validation error.
C11_ModeExclusive ==
    /\ out.op = "simple" /\ hist.before.statementReturned
           => out.threw /\ out.message # "Invalid statement configuration"
    /\ out.op = "statement" /\ hist.before.simpleReturned
           => out.threw /\ out.message # "Invalid statement configuration"

C11_Witness ==
    /\ out.op = "statement" /\ hist.before.simpleReturned /\ out.threw
    /\ pb.hasSimpleStatement /\ pb.policyStatements = <<>>

\* the statements a build() of the PolicyBuilder results in: those added by
\* statement() / addStatements(), then the simple-mode one if it validates
ResultingStatements ==
    pb.policyStatements \o
    (IF hist.simpleReturned /\ ~StatementBuilder_build(sb).threw
     THEN <<StatementBuilder_build(sb).value>> ELSE <<>>)

PolicyViolations ==
       {"Policy ID must be a non-empty string" :
            x \in {1} \cap (IF pb.policyId = "" THEN {1} ELSE {})}
  \cup {"Policy document version must be a non-empty string" :
            x \in {1} \cap (IF hist.version = "" THEN {1} ELSE {})}
  \cup {"Policy must contain at least one statement. Use allow()/deny() methods or statement() method." :
            x \in {1} \cap (IF \A i \in 1..Len(ResultingStatements) :
                                   ~WellFormed(ResultingStatements[i])
                            THEN {1} ELSE {})}

\* C15: build() fails, with one error listing every violation, whenever the
\* id is empty, the version is empty or there is no resulting valid
\* statement; otherwise it returns the Policy of the builder's id, version
\* (default '2023-11-15') and statements.  Violated: a pre-built statement
\* handed to statement() is never validated, so a policy whose only
\* statement is invalid builds.
C15_BuildAggregates ==
    out.op = "build"
        => /\ out.threw <=> PolicyViolations # {}
           /\ out.threw => /\ out.message = "Invalid policy configuration"
                           /\ PolicyViolations \subseteq Range(out.errors)
           /\ ~out.threw =>
                  out.value =
                      [id |-> pb.policyId,
                       document |->
                           [Version |-> IF hist.version = Undefined
                                        THEN "2023-11-15" ELSE hist.version,
                            Statement |-> ResultingStatements]]

\* C16: a simple-mode call sequence that builds gives a document with
\* exactly one statement, equal to the one a StatementBuilder builds from
\* the same calls, and equal to the single statement of a complex-mode
\* PolicyBuilder given that StatementBuilder.
C16_RoundTrip ==
    out.op = "build" /\ ~out.threw /\ hist.simpleReturned
        => LET st == StatementBuilder_build(sb)
               complex == PolicyBuilder_build(
                              PolicyBuilder_statement(NewPolicyBuilder(pb.policyId),
                                                      BuilderArg(sb)).value)
           IN  /\ ~st.threw /\ ~complex.threw
               /\ out.value.document.Statement = <<st.value>>
               /\ complex.value.document.Statement = <<st.value>>

C16_Witness ==
    /\ out.op = "build" /\ ~out.threw /\ hist.simpleReturned
    /\ out.value.document.Statement[1].Effect = "Deny"
    /\ out.value.document.Statement[1].HasCondition
    /\ out.value.document.Statement[1].EndDate = "2025-06-01T00:00:00Z"

----------------------------------------------------------------------------
(* AccessControl claims, under SpecAccess / SpecAccessFair and             *)
(* SpecCreatePolicy.                                                       *)

\* the policies the repository returns for the roles of the user, in the
\* order of the user's role list
RolePoliciesInRoleOrder ==
    LET roles == rolesOf(store.user) IN
    Concat([i \in 1..Len(roles) |-> store.rolePolicies[roles[i]]])

\* C17: evaluate is handed the user's direct policies followed by each
\* role's policies in role-list order, whatever the order in which the
\* fetches completed, and hasAccess returns what evaluate returns for it.
C17_Aggregation ==
    call.evaluated
        => /\ policies = store.userPolicies \o RolePoliciesInRoleOrder
           /\ call.pc = "resolved"
           /\ call.returned = evaluate(policies, action, resource, context, now)

\* the fetch of the second role completed before that of the first
C17_Witness ==
    /\ call.evaluated
    /\ call.order = <<2, 1>>
    /\ call.roleIds = <<"r1", "r2">>
    /\ store.userPolicies = <<P1>>
    /\ policies = <<P1, P2, P3>>
    /\ call.returned = FALSE

FetchPromises == <<call.direct>> \o call.rolePromises
SomeFetchFailed ==
    \/ call.userFailed
    \/ \E i \in 1..Len(FetchPromises) : FetchPromises[i].state = "rejected"
RaisedErrors ==
    {UserNotFound : x \in {1} \cap (IF call.userFailed THEN {1} ELSE {})}
    \cup {FetchPromises[i].reason :
              i \in {j \in 1..Len(FetchPromises) : FetchPromises[j].state = "rejected"}}

C18_Safety ==
    /\ SomeFetchFailed => call.pc # "resolved" /\ ~call.evaluated
    /\ call.pc = "rejected" => call.error \in RaisedErrors
    /\ call.userFailed => store.log = <<<<"getUser", UserId>>>>

\* C18: if getUser, the direct-policy fetch or a role-policy fetch fails,
\* hasAccess fails: it never returns a boolean, evaluate is never invoked,
\* the error is one the repository raised, and after a failed getUser no
\* policy fetch is issued; once every fetch has settled the call rejects.
C18_FetchFailureFails ==
    /\ []C18_Safety
    /\ SomeFetchFailed ~> call.pc = "rejected"

\* the direct fetch failed while both role fetches succeeded
C18_Witness ==
    /\ call.pc = "rejected"
    /\ call.direct.state = "rejected"
    /\ call.error = UserPoliciesFailed
    /\ Len(call.rolePromises) = 2
    /\ \A i \in 1..2 : call.rolePromises[i].state = "fulfilled"
    /\ ~call.evaluated

\* C19: evaluate is invoked only after the direct-policy fetch and every
\* role-policy fetch of the call have completed successfully.
C19_NoPartialEvaluation ==
    call.evaluated
        => /\ call.direct.state = "fulfilled"
           /\ Len(call.rolePromises) = Len(rolesOf(store.user))
           /\ \A i \in 1..Len(call.rolePromises) :
                  call.rolePromises[i].state = "fulfilled"

\* evaluated, and access granted, after the direct fetch and two role fetches
C19_Witness ==
    /\ call.evaluated
    /\ Len(call.rolePromises) = 2
    /\ call.order = <<1, 2>>
    /\ call.returned = TRUE

\* C20: createPolicy with a PolicyBuilder hands the repository exactly the
\* Policy build() returns; if build() raises, that error surfaces and the
\* repository is never called; a literal Policy is handed over unchanged.
C20_CreatePolicyBuildsFirst ==
    call.pc # "idle"
        => IF call.policy.isBuilder
           THEN LET built == PolicyBuilder_build(call.policy.builder) IN
                IF built.threw
                THEN /\ store.log = <<>>
                     /\ call.pc = "rejected"
                     /\ out.threw /\ out.message = "Invalid policy configuration"
                     /\ out.errors = built.errors
                ELSE store.log = <<<<"createPolicy", built.value>>>>
           ELSE store.log = <<<<"createPolicy", call.policy.policy>>>>

\* a builder whose simple-mode statement lacks resources was refused
C20_Witness ==
    /\ call.pc = "rejected" /\ call.policy.isBuilder
    /\ call.policy.builder.policyId = "policy-1"
    /\ call.policy.builder.hasSimpleStatement
    /\ out.threw /\ store.log = <<>>

----------------------------------------------------------------------------
(* Built values and their builder.  The only array a builder changes in    *)
(* place is policyStatements (push, part_003:160); build() hands out       *)
(* `[...this.policyStatements]` (part_003:226), an array of its own.  An   *)
(* array handed out is kept as [shared, items]: shared with the builder's  *)
(* policyStatements, or a copy holding items.                              *)

spread(array) == [shared |-> FALSE, items |-> array]
allStatementsArray_NoCopy(p) == [shared |-> TRUE, items |-> getAllStatements(p)]
\* the array object getAllStatements() returns and build() puts in the document
allStatementsArray(p) == spread(getAllStatements(p))

\* what an array handed out holds now, the builder being p
itemsNow(array, p) == IF array.shared THEN p.policyStatements ELSE array.items

MaxLaterCalls == 2

NoBuilt ==
    [built |-> [has |-> FALSE, policy |-> NoPolicy, array |-> spread(<<>>)],
     previous |-> [has |-> FALSE, policy |-> NoPolicy],
     calls |-> 0]

InitBuilt ==
    /\ pb \in PreparedBuilders
    /\ hist = NoBuilt
    /\ out = Outcome("none", Returned(NoPolicy))
    /\ sb = NewStatementBuilder
    /\ EvaluatorIdle /\ AccessIdle

\* build(): hist.built keeps the first Policy returned and the array in it,
\* hist.previous the Policy of a build() that was the call just before
BuiltBuild ==
    LET r == PolicyBuilder_build(pb) IN
    /\ hist.calls < MaxLaterCalls \/ ~hist.built.has
    /\ out' = Outcome("build", r)
    /\ hist' = [built |-> IF r.threw \/ hist.built.has THEN hist.built
                          ELSE [has |-> TRUE, policy |-> r.value,
                                array |-> allStatementsArray(pb)],
                previous |-> [has |-> out.op = "build" /\ ~out.threw,
                              policy |-> out.value],
                calls |-> IF hist.built.has THEN hist.calls + 1 ELSE hist.calls]
    /\ UNCHANGED <<pb, sb, evaluatorVars, accessVars>>

\* a call other than build() on the builder, after the first build()
Later(op, r) ==
    /\ hist.built.has /\ hist.calls < MaxLaterCalls
    /\ pb' = r.value
    /\ out' = Chained(op, r)
    /\ hist' = [hist EXCEPT !.calls = @ + 1]
    /\ UNCHANGED <<sb, evaluatorVars, accessVars>>

LaterVersion == Later("version", Returned(PolicyBuilder_version(pb, "2024-01-01")))
LaterSimple ==
    \E r \in {PolicyBuilder_allow(pb, <<Write>>), PolicyBuilder_deny(pb, <<Write>>),
              PolicyBuilder_on(pb, <<DocumentSecret>>),
              PolicyBuilder_when(pb, Marketing),
              PolicyBuilder_activeFrom(pb, "2025-04-01"),
              PolicyBuilder_activeUntil(pb, "2025-06-01T00:00:00Z")} :
        Later("simple", r)
LaterStatement ==
    \E arg \in StatementArgs : Later("statement", PolicyBuilder_statement(pb, arg))
LaterAddStatements ==
    \E arg \in StatementArgs :
        Later("addStatements",
              PolicyBuilder_addStatements(pb, <<StatementArg(ValidLiteral), arg>>))

NextBuilt ==
    BuiltBuild \/ LaterVersion \/ LaterSimple \/ LaterStatement \/ LaterAddStatements
SpecBuilt == InitBuilt /\ [][NextBuilt]_vars

\* the Policy of the first build() as a holder of it reads it now
BuiltPolicyNow ==
    [hist.built.policy EXCEPT
         !.document.Statement = itemsNow(hist.built.array, pb)]

\* C21: a built Policy (and the statements in it, built by the simple-mode
\* StatementBuilder) is not changed by any later call on its builder, and
\* two build() calls with no call in between return equal values.
C21_BuiltIndependent ==
    /\ hist.built.has => BuiltPolicyNow = hist.built.policy
    /\ hist.previous.has /\ out.op = "build"
           => ~out.threw /\ out.value = hist.previous.policy

\* a statement was pushed after the build, and the builder built again
C21_Witness ==
    /\ hist.built.has /\ hist.calls = 2
    /\ out.op = "build" /\ ~out.threw
    /\ Len(pb.policyStatements) > Len(hist.built.policy.document.Statement)
    /\ out.value # hist.built.policy

\* C23: every statement of a Policy returned by PolicyBuilder.build() is
\* valid: Effect Allow or Deny, non-empty Action and Resource lists with no
\* empty entry, parseable dates, StartDate before EndDate.  Violated: a
\* pre-built statement handed to statement()/addStatements() is pushed as
\* given and build() only counts the statements.
C23_BuiltStatementsValid ==
    out.op = "build" /\ ~out.threw
        => \A i \in 1..Len(out.value.document.Statement) :
               WellFormed(out.value.document.Statement[i])

\* C24: in complex mode the built document's Statement sequence is exactly
\* the statements handed to the statement() and addStatements() calls that
\* returned, in call order (a StatementBuilder argument counted as what it
\* builds at the time of the call, a pre-built statement as given).
\* Violated: addStatements() that raises at a later entry has already pushed
\* the entries before it, and a following build() includes them.
C24_ExactlyTheAddedStatements ==
    out.op = "build" /\ ~out.threw /\ ~pb.hasSimpleStatement
        => out.value.document.Statement = hist.added

\* the caller's correction of a builder whose build() failed: each setter
\* whose field validate() rejects is called again with a valid argument
dateMessages ==
    {"StartDate must be a valid ISO format date string",
     "EndDate must be a valid ISO format date string",
     "StartDate must be before EndDate"}
CorrectedStatement(b) ==
    LET errors == Range(StatementBuilder_validate(b))
        b1 == IF errors \cap {"Effect must be set using either allow() or deny()",
                               "At least one action must be specified",
                               "All actions must be non-empty strings"} # {}
              THEN StatementBuilder_allow(b, <<Read>>) ELSE b
        b2 == IF errors \cap {"At least one resource must be specified using on()",
                               "All resources must be non-empty strings"} # {}
              THEN StatementBuilder_on(b1, <<Document>>) ELSE b1
    IN  IF errors \cap dateMessages # {}
        THEN StatementBuilder_activeUntil(
                 StatementBuilder_activeFrom(b2, "2025-04-01"),
                 "2025-06-01T00:00:00Z")
        ELSE b2
Corrected(p) ==
    LET p1 == IF p.documentVersion = ""
              THEN PolicyBuilder_version(p, "2024-01-01") ELSE p
    IN  IF p1.hasSimpleStatement
        THEN [p1 EXCEPT !.simpleStatementBuilder =
                            <<CorrectedStatement(p1.simpleStatementBuilder[1])>>]
        ELSE IF p1.policyStatements = <<>>
             THEN PolicyBuilder_statement(p1, StatementArg(ValidLiteral)).value
             ELSE p1

withPolicy(ps, k, p) == SubSeq(ps, 1, k) \o <<p>> \o SubSeq(ps, k + 1, Len(ps))
AddedPolicies(effect) ==
    {Policy("added", <<st>>) : st \in StatementsOf(effect)}

\* C26: the result evaluate returned does not go from false to true when a
\* policy of Deny statements is added (in front), nor from true to false when
\* a policy of Allow statements is added (at the end), and is the same when
\* one of the policies occurs a second time.
C26_Monotone ==
    [](pc = "done" =>
        /\ result \/ \A p \in AddedPolicies("Deny") :
               ~evaluate(withPolicy(policies, 0, p), action, resource, context, now)
        /\ ~result \/ \A p \in AddedPolicies("Allow") :
               evaluate(withPolicy(policies, Len(policies), p),
                        action, resource, context, now)
        /\ \A i \in 1..Len(policies) :
               evaluate(withPolicy(policies, Len(policies), policies[i]),
                        action, resource, context, now) = result)

\* access is granted by one policy and an added Deny policy takes it away,
\* access refused is granted by an added Allow policy
C26_Witness ==
    /\ pc = "done" /\ result = TRUE /\ Len(policies) = 2
    /\ \E p \in AddedPolicies("Deny") :
           ~evaluate(withPolicy(policies, Len(policies), p),
                     action, resource, context, now)
    /\ \E p \in AddedPolicies("Allow") :
           evaluate(withPolicy(<<>>, 0, p), action, resource, context, now)

\* the times from now on that the clock of the harness can show
LaterTimes == now..(MaxTime + 1)
PastEndDate(st, t) == Parseable(st.EndDate) /\ t > getTime(st.EndDate)
ReachedStartDate(st, t) == Parseable(st.StartDate) => t >= getTime(st.StartDate)
\* the statement of the harness with EndDate "2025-04-01"
EndingFirst == [statement EXCEPT !.StartDate = Undefined, !.EndDate = "2025-04-01"]

\* C27: for a statement whose dates are absent or parseable, once
\* isStatementActive is false with now past EndDate it is false at every
\* later time; once now has reached StartDate the statement is inactive at a
\* later time only past EndDate; and evaluate, over policies whose only
\* statements are Allow statements with an EndDate, is false at every time
\* past all the EndDates.
C27_OneWindow ==
    (pc = "done"
       /\ (statement.StartDate = Undefined \/ Parseable(statement.StartDate))
       /\ (statement.EndDate = Undefined \/ Parseable(statement.EndDate)))
    => \A t \in LaterTimes :
          /\ ~result /\ PastEndDate(statement, now)
                 => ~isStatementActive(statement, t)
          /\ ReachedStartDate(statement, now)
                 => isStatementActive(statement, t) \/ PastEndDate(statement, t)
          /\ PastEndDate(statement, t) /\ PastEndDate(EndingFirst, t)
                 => ~evaluate(<<Policy("p", <<statement>>),
                                Policy("q", <<EndingFirst, statement>>)>>,
                              Read, Document, EmptyObject, t)

\* a statement with both dates, found active inside its window: it is
\* inactive once the window is over, and so is the access it granted
C27_Witness ==
    /\ pc = "done" /\ result = TRUE
    /\ Parseable(statement.StartDate) /\ Parseable(statement.EndDate)
    /\ now >= 1 /\ getTime(statement.StartDate) = now
    /\ evaluate(<<Policy("p", <<statement>>)>>, Read, Document, EmptyObject, now)
    /\ \E t \in LaterTimes :
           /\ ~isStatementActive(statement, t)
           /\ ~evaluate(<<Policy("p", <<statement>>)>>, Read, Document, EmptyObject, t)

----------------------------------------------------------------------------
(* hasAccess while other callers change the stored user and policies.  An  *)
(* operation of another caller is seen by hasAccess as a change of what    *)
(* the repository holds; store.log lists the calls hasAccess itself makes. *)

\* assignRoleToUser / removeRoleFromUser of another caller takes effect
RolesMutated ==
    /\ \E user \in Users :
           /\ user # store.user
           /\ store' = [store EXCEPT !.user = user]
    /\ UNCHANGED <<call, evaluatorVars, builderVars>>

\* attachPolicyToUser / detachPolicyFromUser / attachPolicyToRole /
\* detachPolicyFromRole of another caller takes effect
PoliciesMutated ==
    /\ \E up \in StoredUserPolicies, rp \in StoredRolePolicies :
           /\ <<up, rp>> # <<store.userPolicies, store.rolePolicies>>
           /\ store' = [store EXCEPT !.userPolicies = up, !.rolePolicies = rp]
    /\ UNCHANGED <<call, evaluatorVars, builderVars>>

NextAccessMutated == NextAccess \/ RolesMutated \/ PoliciesMutated
SpecAccessMutated == InitAccess /\ [][NextAccessMutated]_vars

\* the calls of one repository method in store.log, in order
CallsOf(method) == SelectSeq(store.log, LAMBDA entry : entry[1] = method)
RolesReturned == IF call.user.hasRoles THEN call.user.roles ELSE <<>>

\* C28: one hasAccess invocation calls getUser once, then getUserPolicies
\* once and getRolePolicies once for each entry of the roles list of the user
\* its getUser returned, in order and for no other role, whatever changes of
\* roles and attachments interleave; it calls nothing else, and no step of
\* it changes what the repository holds.
C28_FetchesOfOwnUser ==
    /\ [](/\ \A i \in 1..Len(store.log) :
                 store.log[i][1] \in {"getUser", "getUserPolicies", "getRolePolicies"}
          /\ CallsOf("getUser") =
                 IF call.pc = "idle" THEN <<>> ELSE <<<<"getUser", UserId>>>>
          /\ CallsOf("getUserPolicies") =
                 IF Issued THEN <<<<"getUserPolicies", UserId>>>> ELSE <<>>
          /\ CallsOf("getRolePolicies") =
                 IF Issued
                 THEN [i \in 1..Len(RolesReturned) |->
                          <<"getRolePolicies", RolesReturned[i]>>]
                 ELSE <<>>)
    /\ [][call' # call =>
              /\ store'.user = store.user
              /\ store'.userPolicies = store.userPolicies
              /\ store'.rolePolicies = store.rolePolicies]_vars

\* the call went through with the same role twice in the list its getUser
\* returned, and the stored roles were changed meanwhile
C28_Witness ==
    /\ call.pc = "resolved"
    /\ call.user.hasRoles /\ call.user.roles = <<"r1", "r1">>
    /\ store.user # call.user
    /\ Len(CallsOf("getRolePolicies")) = 2

----------------------------------------------------------------------------
(* DynamoDBRepository over one table.  store.item holds the item          *)
(* of the user and of the role (their `roles` and `policies` attributes,  *)
(* each absent or a list), store.policy the ids of the policy items.  A    *)
(* call of a caller runs from one command of the document client to the   *)
(* next: a step is the table serving one command and the code up to the   *)
(* next `await this.docClient.send`.                                       *)

UserKey == "USER#u1"
RoleKey == "ROLE#r1"
PolicyIdsStored == {"p1", "p2"}
Callers == {1, 2}
MaxCalls == 4

Absent == [has |-> FALSE, val |-> <<>>]
Some(list) == [has |-> TRUE, val |-> list]

\* `if (!user.roles) user.roles = []`: an absent attribute reads as []
orEmpty(attribute) == IF attribute.has THEN attribute.val ELSE <<>>

\* Array.from(new Set(list)): the first occurrence of each entry, in order
RECURSIVE ArrayFromSet(_)
ArrayFromSet(list) ==
    IF list = <<>> THEN <<>>
    ELSE LET front == ArrayFromSet(SubSeq(list, 1, Len(list) - 1))
             last == list[Len(list)]
         IN  IF last \in {front[i] : i \in 1..Len(front)} THEN front
             ELSE Append(front, last)

\* roles = new Set(user.roles); roles.add(roleId); Array.from(roles)
setAdd(list, id) == ArrayFromSet(Append(list, id))
\* role.policies.filter(p => p !== policyId)
filterOut(list, id) == SelectSeq(list, LAMBDA p : p # id)

\* new Error(`Something went wrong: ${err}`) around `Policy not found: ${id}`
PolicyNotFound(id) ==
    IF id = "p1" THEN "Something went wrong: Error: Policy not found: p1"
    ELSE "Something went wrong: Error: Policy not found: p2"

IdleCall ==
    [pc |-> "idle", op |-> "", key |-> "", attr |-> "", id |-> "",
     list |-> <<>>, updated |-> <<>>, i |-> 0]
NoResult ==
    [caller |-> 0, op |-> "none", id |-> "", threw |-> FALSE, error |-> "",
     value |-> <<>>]
Resolved(c, v) ==
    [caller |-> c, op |-> call[c].op, id |-> call[c].id, threw |-> FALSE,
     error |-> "", value |-> v]

InitRepo ==
    /\ store = [item |-> [k \in {UserKey, RoleKey} |->
                              [roles |-> Absent, policies |-> Absent]],
                policy |-> {}]
    /\ call = [c \in Callers |-> IdleCall]
    /\ out = NoResult
    /\ hist = [added |-> {}, calls |-> 0]
    /\ sb = NewStatementBuilder /\ pb = NewPolicyBuilder("")
    /\ EvaluatorIdle

\* a caller with no call under way makes a call
Callable(c) == call[c].pc = "idle" /\ hist.calls < MaxCalls

Additions == {"assignRoleToUser", "attachPolicyToRole", "attachPolicyToUser"}
RemovalUnderWay(key, attr) ==
    \E c \in Callers : /\ call[c].pc = "update" /\ call[c].op \notin Additions
                       /\ call[c].key = key /\ call[c].attr = attr

\* the first half of assignRoleToUser / attachPolicyToRole /
\* attachPolicyToUser: the item is read, the new list is computed from what
\* was read, and the UpdateCommand is sent
readAndAdd(c, op, key, attr, id) ==
    LET list == orEmpty(store.item[key][attr]) IN
    /\ Callable(c)
    /\ call' = [call EXCEPT ![c] =
                   [pc |-> "update", op |-> op, key |-> key, attr |-> attr,
                    id |-> id, list |-> list, updated |-> setAdd(list, id),
                    i |-> 0]]
    /\ hist' = [hist EXCEPT !.calls = @ + 1]
    /\ UNCHANGED <<store, out, sb, pb, evaluatorVars>>

AssignRoleToUser ==
    \E c \in Callers, roleId \in RoleIds :
        readAndAdd(c, "assignRoleToUser", UserKey, "roles", roleId)
AttachPolicyToRole ==
    \E c \in Callers, policyId \in PolicyIdsStored :
        readAndAdd(c, "attachPolicyToRole", RoleKey, "policies", policyId)
AttachPolicyToUser ==
    \E c \in Callers, policyId \in PolicyIdsStored :
        readAndAdd(c, "attachPolicyToUser", UserKey, "policies", policyId)

\* the first half of detachPolicyFromRole / detachPolicyFromUser /
\* removeRoleFromUser: the item is read; without the attribute the call
\* returns, else the filtered list is sent
readAndRemove(c, op, key, attr, id) ==
    LET attribute == store.item[key][attr] IN
    /\ Callable(c)
    /\ hist' = [added |-> {h \in hist.added : ~(h.key = key /\ h.attr = attr)},
                calls |-> hist.calls + 1]
    /\ IF ~attribute.has
       THEN /\ out' = [Resolved(c, <<>>) EXCEPT !.op = op, !.id = id]
            /\ UNCHANGED call
       ELSE /\ call' = [call EXCEPT ![c] =
                           [pc |-> "update", op |-> op, key |-> key,
                            attr |-> attr, id |-> id, list |-> attribute.val,
                            updated |-> filterOut(attribute.val, id), i |-> 0]]
            /\ UNCHANGED out
    /\ UNCHANGED <<store, sb, pb, evaluatorVars>>

DetachPolicyFromRole ==
    \E c \in Callers, policyId \in PolicyIdsStored :
        readAndRemove(c, "detachPolicyFromRole", RoleKey, "policies", policyId)
DetachPolicyFromUser ==
    \E c \in Callers, policyId \in PolicyIdsStored :
        readAndRemove(c, "detachPolicyFromUser", UserKey, "policies", policyId)
RemoveRoleFromUser ==
    \E c \in Callers, roleId \in RoleIds :
        readAndRemove(c, "removeRoleFromUser", UserKey, "roles", roleId)

\* the UpdateCommand `SET attr = :list` is served and the call returns:
\* assignRoleToUser the user as it was read, the others nothing.  hist
\* keeps the additions that returned while no removal on the attribute was
\* under way.
UpdateResolves ==
    \E c \in Callers :
        LET k == call[c] IN
        /\ k.pc = "update"
        /\ store' = [store EXCEPT !.item[k.key][k.attr] = Some(k.updated)]
        /\ out' = Resolved(c, IF k.op = "assignRoleToUser" THEN k.list ELSE <<>>)
        /\ hist' = IF k.op \in Additions /\ ~RemovalUnderWay(k.key, k.attr)
                   THEN [hist EXCEPT !.added =
                            @ \cup {[key |-> k.key, attr |-> k.attr, id |-> k.id]}]
                   ELSE hist
        /\ call' = [call EXCEPT ![c] = IdleCall]
        /\ UNCHANGED <<sb, pb, evaluatorVars>>

\* getRolePolicies / getUserPolicies up to the first getPolicy: the item is
\* read; with no policies the call returns [], else getPolicy is sent for the
\* first id
readPolicies(c, op, key) ==
    LET list == orEmpty(store.item[key].policies) IN
    /\ Callable(c)
    /\ hist' = [hist EXCEPT !.calls = @ + 1]
    /\ IF list = <<>>
       THEN /\ out' = [Resolved(c, <<>>) EXCEPT !.op = op]
            /\ UNCHANGED call
       ELSE /\ call' = [call EXCEPT ![c] =
                           [pc |-> "getPolicy", op |-> op, key |-> key,
                            attr |-> "policies", id |-> "", list |-> list,
                            updated |-> <<>>, i |-> 1]]
            /\ UNCHANGED out
    /\ UNCHANGED <<store, sb, pb, evaluatorVars>>

GetRolePolicies == \E c \in Callers : readPolicies(c, "getRolePolicies", RoleKey)
GetUserPolicies == \E c \in Callers : readPolicies(c, "getUserPolicies", UserKey)

\* getPolicy(policyId) inside the loop: without the item the call rejects,
\* else the policy is pushed and the loop goes on or the call returns
GetPolicyResolves ==
    \E c \in Callers :
        LET k == call[c]
            policyId == k.list[k.i]
        IN
        /\ k.pc = "getPolicy"
        /\ IF policyId \notin store.policy
           THEN /\ out' = [Resolved(c, <<>>) EXCEPT
                               !.threw = TRUE, !.error = PolicyNotFound(policyId)]
                /\ call' = [call EXCEPT ![c] = IdleCall]
           ELSE IF k.i = Len(k.list)
           THEN /\ out' = Resolved(c, Append(k.updated, policyId))
                /\ call' = [call EXCEPT ![c] = IdleCall]
           ELSE /\ call' = [call EXCEPT ![c].updated = Append(@, policyId),
                                        ![c].i = @ + 1]
                /\ UNCHANGED out
        /\ UNCHANGED <<store, hist, sb, pb, evaluatorVars>>

\* createPolicy: one PutCommand
RepoCreatePolicy ==
    \E c \in Callers, policyId \in PolicyIdsStored :
        /\ Callable(c)
        /\ hist' = [hist EXCEPT !.calls = @ + 1]
        /\ store' = [store EXCEPT !.policy = @ \cup {policyId}]
        /\ out' = [Resolved(c, <<policyId>>) EXCEPT !.op = "createPolicy",
                                                    !.id = policyId]
        /\ UNCHANGED <<call, sb, pb, evaluatorVars>>

\* deletePolicy: one DeleteCommand on the policy item
RepoDeletePolicy ==
    \E c \in Callers, policyId \in PolicyIdsStored :
        /\ Callable(c)
        /\ hist' = [hist EXCEPT !.calls = @ + 1]
        /\ store' = [store EXCEPT !.policy = @ \ {policyId}]
        /\ out' = [Resolved(c, <<>>) EXCEPT !.op = "deletePolicy", !.id = policyId]
        /\ UNCHANGED <<call, sb, pb, evaluatorVars>>

NextRepo ==
    \/ AssignRoleToUser \/ AttachPolicyToRole \/ AttachPolicyToUser
    \/ DetachPolicyFromRole \/ DetachPolicyFromUser \/ RemoveRoleFromUser
    \/ UpdateResolves
    \/ GetRolePolicies \/ GetUserPolicies \/ GetPolicyResolves
    \/ RepoCreatePolicy \/ RepoDeletePolicy
SpecRepo == InitRepo /\ [][NextRepo]_vars

Occurrences(list, id) == Cardinality({i \in 1..Len(list) : list[i] = id})

\* C22: assignRoleToUser resolves to the updated user: the roles of the
\* User returned contain the role assigned, once, and so do the stored roles.
\* Violated: the call returns the user as it was read before the update.
C22_ReturnsUpdatedUser ==
    out.op = "assignRoleToUser" /\ ~out.threw
        => /\ Occurrences(out.value, out.id) = 1
           /\ \A c \in Callers : call[c].pc = "idle"
                  => Occurrences(orEmpty(store.item[UserKey].roles), out.id) <= 1

\* C29: no update is lost: an addition (attachPolicyToRole,
\* attachPolicyToUser, assignRoleToUser) that returned, with no removal on
\* the same list under way or started since, is in the stored list once no
\* call is under way.
\* Violated: two additions that both read the list before either update is
\* served each write the list they read plus their own entry.
C29_NoLostUpdate ==
    (\A c \in Callers : call[c].pc = "idle")
        => \A h \in hist.added :
               Occurrences(orEmpty(store.item[h.key][h.attr]), h.id) = 1

\* C30: every policy id in the policies of the user or of the role is the id
\* of a stored policy, and getRolePolicies / getUserPolicies never reject
\* for a policy that is not found.
\* Violated: attach does not look the policy up, and deletePolicy leaves the
\* id in the lists.
C30_NoDanglingPolicy ==
    /\ \A key \in {UserKey, RoleKey} :
           \A i \in 1..Len(orEmpty(store.item[key].policies)) :
               orEmpty(store.item[key].policies)[i] \in store.policy
    /\ out.op \in {"getRolePolicies", "getUserPolicies"} => ~out.threw

====
